---- MODULE Spec2Model ----
(***************************************************************************)
(* Model of the download engine of EndlessPixel-ModpackApp                 *)
(* (src/main.py, class DownloadWorker).                                    *)
(*                                                                         *)
(* Threads of the program that appear here:                                *)
(*   - the QThread executing DownloadWorker.run            (runPc)         *)
(*   - one threading.Thread per range, download_chunk      (wpc[w])        *)
(*   - the daemon thread executing calculate_speed         (spc)           *)
(*   - the GUI thread calling pause() / resume() / stop()  (ctl)           *)
(* Every action is one step between two accesses of shared state, so the   *)
(* interleavings of the model are those the interpreter can produce.       *)
(*                                                                         *)
(* The remote server is the environment.  For a request bytes=start-end    *)
(* it either fails (non-success status, transport error, timeout) or       *)
(* delivers at most end-start+1 bytes in increments of at most MaxChunk    *)
(* bytes; the body may end early and the stream may break at any read.     *)
(***************************************************************************)
EXTENDS Integers, Sequences, FiniteSets, TLC

\* ---------------------------------------------------------------- bounds
MaxThreads == 2      \* largest thread count a caller passes in the model
MaxTotal   == 3      \* largest content-length the probe reports
MaxChunk   == 2      \* largest increment iter_content yields (8192 in the code)
ArgSlack   == 2      \* how far below 1 and above ThreadLimit thread arguments go
ProgressMax == 50    \* largest total size the progress formula is evaluated for
MaxTagLen  == 2      \* longest tag name in the lists that are sorted
MaxPrefixLen == 2    \* longest common prefix of a final/beta pair of tag names
MaxPages   == 2      \* most pages the remote listing is split into
MaxComponents == 2   \* most numeric components of a generated tag name

\* ------------------------------------------------------ program constants
ThreadLimit == 64    \* upper clamp of the thread count

Workers == 0 .. (MaxThreads - 1)
Paths   == {"dir/pack.zip"}
url     == "https://host/pack.zip"

\* the texts the error signal carries
MsgNoSize    == "no file size"         \* run(): the probe reported no length
MsgException == "str(e)"               \* run(): except-branch
MsgChunk     == "chunk error: str(e)"  \* download_chunk(): except-branch

Min(a, b) == IF a < b THEN a ELSE b
Max(a, b) == IF a > b THEN a ELSE b

VARIABLES
    \* fields of DownloadWorker
    save_path, threads, running, paused, total_size, downloaded_size,
    last_downloaded,
    \* run(): position, loop indices, value of the final condition
    runPc, spawned, joined, cond,
    \* download_chunk(start, end): position and locals of each worker
    wpc, start, end, received, chunk, pos, downloaded,
    \* the destination file: one cell per byte, the set of workers that wrote it
    file,
    \* signals emitted so far
    finished, errors, progress, speeds,
    \* calculate_speed(): position
    spc,
    \* GUI thread: position inside stop()
    ctl,
    \* increments each worker has added to downloaded_size while the pause flag
    \* has been set (0 while it is clear)
    incSincePause,
    \* stop() wrote running = False while a chunk worker had not exited
    stoppedMid,
    \* the threads argument the caller passed to __init__
    threads_arg,
    \* MirrorManager, VersionManager and the progress formula keep no state of
    \* their own: the call under evaluation, its arguments and its result
    calc

vars == << save_path, threads, running, paused, total_size, downloaded_size,
           last_downloaded, runPc, spawned, joined, cond,
           wpc, start, end, received, chunk, pos, downloaded,
           file, finished, errors, progress, speeds, spc, ctl, incSincePause,
           stoppedMid, threads_arg, calc >>

fieldVars  == << save_path, threads, total_size, stoppedMid, threads_arg, calc >>
runVars    == << runPc, spawned, joined, cond >>
workerVars == << wpc, start, end, received, chunk, pos, downloaded >>
signalVars == << finished, errors, progress, speeds >>

\* ------------------------------------------------------------ pure helpers

ClampThreads_noUpper(t) == Max(1, t)

\* self.threads = max(1, min(64, threads))
ClampThreads(t) == Max(1, Min(ThreadLimit, t))

\* chunk_size = self.total_size // self.threads
RangeSize(T, N) == T \div N

\* start = i * chunk_size
RangeStart(i, T, N) == i * RangeSize(T, N)

RangeEnd_noRemainder(i, T, N) == (i + 1) * RangeSize(T, N) - 1

RangeEnd_offByOne(i, T, N) ==
    IF i = N - 1 THEN T - 1 ELSE (i + 1) * RangeSize(T, N)

\* end = self.total_size - 1 if i == self.threads - 1 else (i + 1) * chunk_size - 1
RangeEnd(i, T, N) ==
    IF i = N - 1 THEN T - 1 ELSE (i + 1) * RangeSize(T, N) - 1

\* number of bytes a server delivers at most for Range: bytes=s-e
RangeLen(s, e) == Max(0, e - s + 1)

\* ---- float arithmetic of the progress formula ---------------------------
\* Python's float is IEEE 754 binary64: every operation returns the exact
\* result rounded to MantissaBits significant bits, ties to even.  A float is
\* written here as a record [m, e] of value m * 2^e, the integer m held as a
\* sequence of limbs, most significant first (<< >> for 0.0): every limb but
\* the first is a digit in base Limb, the first is any positive integer.

MantissaBits == 53
Percent      == 100
LimbBits     == 13
Limb         == 2 ^ LimbBits

\* number of bits of the positive integer v
BitLenNat(v) == CHOOSE n \in 0 .. 30 : 2 ^ n > v /\ (n = 0 \/ 2 ^ (n - 1) <= v)

BitLength(a) == BitLenNat(a[1]) + LimbBits * (Len(a) - 1)

RECURSIVE NatOfLimbs(_)
NatOfLimbs(a) ==
    IF a = << >> THEN 0
    ELSE NatOfLimbs(SubSeq(a, 1, Len(a) - 1)) * Limb + a[Len(a)]

\* zero bits that follow the binary point of r/t, for 0 < r < t
RECURSIVE LeadingZeros(_, _)
LeadingZeros(r, t) == IF 2 * r >= t THEN 0 ELSE 1 + LeadingZeros(2 * r, t)

RECURSIVE StripZeros(_)
StripZeros(a) ==
    IF a # << >> /\ a[1] = 0 THEN StripZeros(Tail(a)) ELSE a

\* quotient and remainder of (c * Limb^Len(a) + a) by t, for c < t
RECURSIVE DivLimbs(_, _, _)
DivLimbs(a, t, c) ==
    IF a = << >> THEN [q |-> << >>, r |-> c]
    ELSE LET cur  == c * Limb + a[1]
             rest == DivLimbs(Tail(a), t, cur % t)
         IN  [q |-> << cur \div t >> \o rest.q, r |-> rest.r]

RECURSIVE IncLimbs(_)
IncLimbs(a) ==
    IF a = << >> THEN << 1 >>
    ELSE IF Len(a) = 1 \/ a[Len(a)] + 1 < Limb
      THEN [a EXCEPT ![Len(a)] = @ + 1]
    ELSE Append(IncLimbs(SubSeq(a, 1, Len(a) - 1)), 0)

\* a * k + c
RECURSIVE MulLimbs(_, _, _)
MulLimbs(a, k, c) ==
    IF Len(a) = 1 THEN << a[1] * k + c >>
    ELSE LET v == a[Len(a)] * k + c
         IN  Append(MulLimbs(SubSeq(a, 1, Len(a) - 1), k, v \div Limb), v % Limb)

\* a / t rounded to the nearest integer, ties to even
RoundNearestEven(a, t) ==
    LET qr == DivLimbs(a, t, 0)
        q  == StripZeros(qr.q)
    IN  IF 2 * qr.r > t \/ (2 * qr.r = t /\ q[Len(q)] % 2 = 1)
          THEN IncLimbs(q) ELSE q

\* d / t  (int / int, correctly rounded) for t > 0: the quotient is scaled by
\* the power of two that gives it MantissaBits bits before the point
FloatDiv(d, t) ==
    IF d = 0 THEN [m |-> << >>, e |-> 0]
    ELSE LET pp == IF d >= t THEN BitLenNat(d \div t) ELSE 0 - LeadingZeros(d, t)
             k  == MantissaBits - pp
         IN  [m |-> RoundNearestEven(<< d * 2 ^ (k % LimbBits) >>
                                       \o [i \in 1 .. (k \div LimbBits) |-> 0], t),
              e |-> 0 - k]

\* x * k for a small positive integer k
FloatTimes(x, k) ==
    IF x.m = << >> THEN x
    ELSE LET p == MulLimbs(x.m, k, 0)
             s == BitLength(p) - MantissaBits
         IN  [m |-> RoundNearestEven(p, 2 ^ s), e |-> x.e + s]

\* int(x) for 0 <= x with x.e <= 0
FloatToInt(x) ==
    LET n    == 0 - x.e
        kept == Len(x.m) - (n \div LimbBits)
    IN  IF kept <= 0 THEN 0
        ELSE NatOfLimbs(DivLimbs(SubSeq(x.m, 1, kept), 2 ^ (n % LimbBits), 0).q)

FloatProgress(d, T) == FloatToInt(FloatTimes(FloatDiv(d, T), Percent))

\* the values of the formula for the sizes the specifications use
ProgressTable ==
    [T \in 1 .. ProgressMax |-> [d \in 0 .. T |-> FloatProgress(d, T)]]

\* progress = int(self.downloaded_size / self.total_size * 100)
Progress(d, T) ==
    IF T \in DOMAIN ProgressTable /\ d \in DOMAIN ProgressTable[T]
      THEN ProgressTable[T][d]
      ELSE FloatProgress(d, T)

\* f.write(chunk) with the cursor at p: the file grows (zero filled, no writer)
\* up to p + k when it is shorter, and cells p .. p+k-1 are written by w
WriteAt(f, p, k, w) ==
    [o \in 1 .. Max(Len(f), p + k) |->
        LET old == IF o <= Len(f) THEN f[o] ELSE {}
        IN  IF o > p /\ o <= p + k THEN old \cup {w} ELSE old]

\* ------------------------------------------------------------------- Init

\* DownloadWorker(url, save_path, t)
Construct(t) ==
    /\ save_path \in Paths
    /\ threads_arg = t
    /\ threads = ClampThreads(t)
    /\ running = TRUE
    /\ paused = FALSE
    /\ total_size = 0
    /\ downloaded_size = 0
    /\ last_downloaded = 0
    /\ runPc = "idle"
    /\ spawned = 0
    /\ joined = 0
    /\ cond = "unset"
    /\ wpc = [w \in Workers |-> "none"]
    /\ start = [w \in Workers |-> 0]
    /\ end = [w \in Workers |-> 0]
    /\ received = [w \in Workers |-> 0]
    /\ chunk = [w \in Workers |-> 0]
    /\ pos = [w \in Workers |-> 0]
    /\ downloaded = [w \in Workers |-> 0]
    /\ file = << >>
    /\ finished = << >>
    /\ errors = << >>
    /\ progress = -1
    /\ speeds = 0
    /\ spc = "none"
    /\ ctl = "ready"
    /\ incSincePause = [w \in Workers |-> 0]
    /\ stoppedMid = FALSE

\* no call of the stateless components is under evaluation
NoCall == [fn |-> "none"]

Init ==
    /\ \E t \in 0 .. MaxThreads : Construct(t)
    /\ calc = NoCall

\* ------------------------------------------------------------------ run()

Exited(w) == wpc[w] \in {"done", "failed"}

\* QThread.start(): run() begins on its own thread
Start ==
    /\ runPc = "idle"
    /\ runPc' = "probe"
    /\ UNCHANGED << fieldVars, running, paused, downloaded_size, last_downloaded,
                    spawned, joined, cond, workerVars, file, signalVars, spc,
                    ctl, incSincePause >>

Probe_noSizeTest ==
    /\ runPc = "probe"
    /\ \/ /\ errors' = Append(errors, MsgException)
          /\ runPc' = "done"
          /\ UNCHANGED total_size
       \/ \E T \in 0 .. MaxTotal :
            /\ total_size' = T
            /\ errors' = errors
            /\ runPc' = "create"
    /\ UNCHANGED << save_path, threads, stoppedMid, threads_arg, calc, running,
                    paused, downloaded_size, last_downloaded, spawned, joined,
                    cond, workerVars, file, finished, progress, speeds, spc,
                    ctl, incSincePause >>

Probe_opensFirst ==
    /\ runPc = "probe"
    /\ file' = << >>
    /\ \/ /\ errors' = Append(errors, MsgException)
          /\ runPc' = "done"
          /\ UNCHANGED total_size
       \/ \E T \in 0 .. MaxTotal :
            /\ total_size' = T
            /\ IF T = 0
                 THEN errors' = Append(errors, MsgNoSize) /\ runPc' = "done"
                 ELSE errors' = errors /\ runPc' = "create"
    /\ UNCHANGED << save_path, threads, stoppedMid, threads_arg, calc, running, paused,
                    downloaded_size, last_downloaded, spawned, joined, cond, workerVars,
                    finished, progress, speeds, spc, ctl, incSincePause >>

\* requests.head / raise_for_status / content-length; the size test that follows
Probe ==
    /\ runPc = "probe"
    /\ \/ \* the request raises: except-branch of run()
          /\ errors' = Append(errors, MsgException)
          /\ runPc' = "done"
          /\ UNCHANGED total_size
       \/ \E T \in 0 .. MaxTotal :
            /\ total_size' = T
            /\ IF T = 0
                 THEN errors' = Append(errors, MsgNoSize) /\ runPc' = "done"
                 ELSE errors' = errors /\ runPc' = "create"
    /\ UNCHANGED << save_path, threads, stoppedMid, threads_arg, calc, running, paused,
                    downloaded_size, last_downloaded, spawned, joined, cond, workerVars, file,
                    finished, progress, speeds, spc, ctl, incSincePause >>

\* os.makedirs(dirname, exist_ok=True) on the file system c, which is kept
\* only by the specifications that start from an existing file system
MakeDirs(c) == IF c.fn = "fs" THEN [c EXCEPT !.dir = TRUE] ELSE c

\* os.makedirs, then open(save_path, 'wb') truncates the destination; either
\* call may raise (makedirs before it made the directory, open after it)
Create ==
    /\ runPc = "create"
    /\ \/ /\ errors' = Append(errors, MsgException)
          /\ runPc' = "done"
          /\ calc' \in {calc, MakeDirs(calc)}
          /\ UNCHANGED file
       \/ /\ file' = << >>
          /\ calc' = MakeDirs(calc)
          /\ runPc' = "spawn"
          /\ UNCHANGED errors
    /\ UNCHANGED << save_path, threads, total_size, stoppedMid, threads_arg,
                    running, paused, downloaded_size, last_downloaded,
                    spawned, joined, cond, workerVars, finished, progress,
                    speeds, spc, ctl, incSincePause >>

\* one iteration of the loop that creates and starts the chunk threads
Spawn ==
    /\ runPc = "spawn"
    /\ spawned < threads
    /\ start' = [start EXCEPT ![spawned] = RangeStart(spawned, total_size, threads)]
    /\ end' = [end EXCEPT ![spawned] = RangeEnd(spawned, total_size, threads)]
    /\ wpc' = [wpc EXCEPT ![spawned] = "get"]
    /\ spawned' = spawned + 1
    /\ UNCHANGED << fieldVars, running, paused, downloaded_size, last_downloaded,
                    runPc, joined, cond, received, chunk, pos, downloaded, file,
                    signalVars, spc, ctl, incSincePause >>

\* the loop is over: the speed thread is started, run() goes on to the joins
StartSampler ==
    /\ runPc = "spawn"
    /\ spawned = threads
    /\ spc' = "loop"
    /\ runPc' = "join"
    /\ UNCHANGED << fieldVars, running, paused, downloaded_size, last_downloaded,
                    spawned, joined, cond, workerVars, file, signalVars, ctl,
                    incSincePause >>

\* thread.join() of the next thread returns once that thread has exited
Join ==
    /\ runPc = "join"
    /\ joined < threads
    /\ Exited(joined)
    /\ joined' = joined + 1
    /\ UNCHANGED << fieldVars, running, paused, downloaded_size, last_downloaded,
                    runPc, spawned, cond, workerVars, file, signalVars, spc, ctl,
                    incSincePause >>

CheckRunning_ignoresFlag ==
    /\ runPc = "join"
    /\ joined = threads
    /\ runPc' = "chkpaused"
    /\ UNCHANGED << fieldVars, running, paused, downloaded_size, last_downloaded,
                    spawned, joined, cond, workerVars, file, signalVars, spc,
                    ctl, incSincePause >>

\* if self.running ...
CheckRunning ==
    /\ runPc = "join"
    /\ joined = threads
    /\ IF running
         THEN runPc' = "chkpaused" /\ UNCHANGED cond
         ELSE runPc' = "done" /\ cond' = "false"
    /\ UNCHANGED << fieldVars, running, paused, downloaded_size, last_downloaded,
                    spawned, joined, workerVars, file, signalVars, spc, ctl,
                    incSincePause >>

\* ... and not self.paused
CheckPaused ==
    /\ runPc = "chkpaused"
    /\ IF paused
         THEN runPc' = "done" /\ cond' = "false"
         ELSE runPc' = "emit" /\ cond' = "true"
    /\ UNCHANGED << fieldVars, running, paused, downloaded_size, last_downloaded,
                    spawned, joined, workerVars, file, signalVars, spc, ctl,
                    incSincePause >>

EmitFinished_emitsUrl ==
    /\ runPc = "emit"
    /\ finished' = Append(finished, url)
    /\ runPc' = "done"
    /\ UNCHANGED << fieldVars, running, paused, downloaded_size, last_downloaded,
                    spawned, joined, cond, workerVars, file, errors, progress,
                    speeds, spc, ctl, incSincePause >>

\* self.finished.emit(self.save_path)
EmitFinished ==
    /\ runPc = "emit"
    /\ finished' = Append(finished, save_path)
    /\ runPc' = "done"
    /\ UNCHANGED << fieldVars, running, paused, downloaded_size, last_downloaded,
                    spawned, joined, cond, workerVars, file, errors, progress,
                    speeds, spc, ctl, incSincePause >>

RunStep ==
    \/ Probe \/ Create \/ Spawn \/ StartSampler \/ Join
    \/ CheckRunning \/ CheckPaused \/ EmitFinished

\* -------------------------------------------------- download_chunk(start, end)

notWorker == << fieldVars, running, paused, last_downloaded, runVars, finished,
                speeds, spc, ctl >>

Get_noSeek(w) ==
    /\ wpc[w] = "get"
    /\ \/ /\ wpc' = [wpc EXCEPT ![w] = "failed"]
          /\ errors' = Append(errors, MsgChunk)
          /\ UNCHANGED pos
       \/ /\ wpc' = [wpc EXCEPT ![w] = "iter"]
          /\ pos' = [pos EXCEPT ![w] = 0]
          /\ UNCHANGED errors
    /\ UNCHANGED << notWorker, downloaded_size, start, end, received, chunk,
                    downloaded, file, progress, incSincePause >>

\* requests.get with the Range header, raise_for_status, open 'r+b', f.seek(start)
Get(w) ==
    /\ wpc[w] = "get"
    /\ \/ \* non-success status or transport error: the except-branch emits error
          /\ wpc' = [wpc EXCEPT ![w] = "failed"]
          /\ errors' = Append(errors, MsgChunk)
          /\ UNCHANGED pos
       \/ /\ wpc' = [wpc EXCEPT ![w] = "iter"]
          /\ pos' = [pos EXCEPT ![w] = start[w]]
          /\ UNCHANGED errors
    /\ UNCHANGED << notWorker, downloaded_size, start, end, received, chunk,
                    downloaded, file, progress, incSincePause >>

\* next(response.iter_content(chunk_size)): the body ends, the read raises, or
\* an increment of k bytes arrives (k = 0: an empty increment)
Iter(w) ==
    /\ wpc[w] = "iter"
    /\ \/ /\ wpc' = [wpc EXCEPT ![w] = "done"]
          /\ UNCHANGED << errors, received, chunk >>
       \/ /\ wpc' = [wpc EXCEPT ![w] = "failed"]
          /\ errors' = Append(errors, MsgChunk)
          /\ UNCHANGED << received, chunk >>
       \/ \E k \in 0 .. Min(MaxChunk, RangeLen(start[w], end[w]) - received[w]) :
            /\ received' = [received EXCEPT ![w] = @ + k]
            /\ chunk' = [chunk EXCEPT ![w] = k]
            /\ wpc' = [wpc EXCEPT ![w] = "chkrun"]
            /\ UNCHANGED errors
    /\ UNCHANGED << notWorker, downloaded_size, start, end, pos, downloaded,
                    file, progress, incSincePause >>

\* if not self.running: break
CheckRun(w) ==
    /\ wpc[w] = "chkrun"
    /\ wpc' = [wpc EXCEPT ![w] = IF running THEN "chkpause" ELSE "done"]
    /\ UNCHANGED << notWorker, downloaded_size, start, end, received, chunk,
                    pos, downloaded, file, errors, progress, incSincePause >>

CheckPause_skipped(w) ==
    /\ wpc[w] = "chkpause"
    /\ wpc' = [wpc EXCEPT ![w] = "write"]
    /\ UNCHANGED << notWorker, downloaded_size, start, end, received, chunk,
                    pos, downloaded, file, errors, progress, incSincePause >>

\* if self.paused:
CheckPause(w) ==
    /\ wpc[w] = "chkpause"
    /\ wpc' = [wpc EXCEPT ![w] = IF paused THEN "pausewait" ELSE "write"]
    /\ UNCHANGED << notWorker, downloaded_size, start, end, received, chunk,
                    pos, downloaded, file, errors, progress, incSincePause >>

PauseWait_dropsIncrement(w) ==
    /\ wpc[w] = "pausewait"
    /\ ~ (paused /\ running)
    /\ wpc' = [wpc EXCEPT ![w] = IF running THEN "iter" ELSE "done"]
    /\ UNCHANGED << notWorker, downloaded_size, start, end, received, chunk,
                    pos, downloaded, file, errors, progress, incSincePause >>

\* while self.paused and self.running: threading.Event().wait(0.1)
\* (an iteration that finds both flags set changes nothing)
PauseWait(w) ==
    /\ wpc[w] = "pausewait"
    /\ ~ (paused /\ running)
    /\ wpc' = [wpc EXCEPT ![w] = "chkrun2"]
    /\ UNCHANGED << notWorker, downloaded_size, start, end, received, chunk,
                    pos, downloaded, file, errors, progress, incSincePause >>

CheckRunAfterPause_ignoresFlag(w) ==
    /\ wpc[w] = "chkrun2"
    /\ wpc' = [wpc EXCEPT ![w] = "write"]
    /\ UNCHANGED << notWorker, downloaded_size, start, end, received, chunk,
                    pos, downloaded, file, errors, progress, incSincePause >>

\* if not self.running: break      (after the pause loop)
CheckRunAfterPause(w) ==
    /\ wpc[w] = "chkrun2"
    /\ wpc' = [wpc EXCEPT ![w] = IF running THEN "write" ELSE "done"]
    /\ UNCHANGED << notWorker, downloaded_size, start, end, received, chunk,
                    pos, downloaded, file, errors, progress, incSincePause >>

\* if chunk: f.write(chunk); downloaded += len(chunk)
\* (a write that raises ends the worker through the except-branch)
Write(w) ==
    /\ wpc[w] = "write"
    /\ \/ /\ chunk[w] = 0
          /\ wpc' = [wpc EXCEPT ![w] = "iter"]
          /\ UNCHANGED << file, pos, downloaded, errors >>
       \/ /\ chunk[w] > 0
          /\ file' = WriteAt(file, pos[w], chunk[w], w)
          /\ pos' = [pos EXCEPT ![w] = @ + chunk[w]]
          /\ downloaded' = [downloaded EXCEPT ![w] = @ + chunk[w]]
          /\ wpc' = [wpc EXCEPT ![w] = "count"]
          /\ UNCHANGED errors
       \/ /\ chunk[w] > 0
          /\ wpc' = [wpc EXCEPT ![w] = "failed"]
          /\ errors' = Append(errors, MsgChunk)
          /\ UNCHANGED << file, pos, downloaded >>
    /\ UNCHANGED << notWorker, downloaded_size, start, end, received, chunk,
                    progress, incSincePause >>

\* with self.lock: self.downloaded_size += len(chunk); progress = ...; emit
Count(w) ==
    /\ wpc[w] = "count"
    /\ downloaded_size' = downloaded_size + chunk[w]
    /\ progress' = Progress(downloaded_size', total_size)
    /\ chunk' = [chunk EXCEPT ![w] = 0]
    /\ incSincePause' = [incSincePause EXCEPT ![w] = IF paused THEN @ + 1 ELSE @]
    /\ wpc' = [wpc EXCEPT ![w] = "iter"]
    /\ UNCHANGED << notWorker, start, end, received, pos, downloaded, file,
                    errors >>

WorkerStep(w) ==
    \/ Get(w) \/ Iter(w) \/ CheckRun(w) \/ CheckPause(w) \/ PauseWait(w)
    \/ CheckRunAfterPause(w) \/ Write(w) \/ Count(w)

\* ------------------------------------------------------- calculate_speed()

notSampler == << fieldVars, running, paused, downloaded_size, runVars,
                 workerVars, file, finished, errors, progress, ctl,
                 incSincePause >>

\* while self.running and self.downloaded_size < self.total_size:
SamplerLoop ==
    /\ spc = "loop"
    /\ spc' = IF running /\ downloaded_size < total_size THEN "wait" ELSE "done"
    /\ UNCHANGED << notSampler, last_downloaded, speeds >>

SamplerWake_ignoresPause ==
    /\ spc = "wait"
    /\ spc' = IF ~ running THEN "loop" ELSE "sample"
    /\ UNCHANGED << notSampler, last_downloaded, speeds >>

\* threading.Event().wait(1); if not self.running or self.paused: continue
SamplerWake ==
    /\ spc = "wait"
    /\ spc' = IF ~ running \/ paused THEN "loop" ELSE "sample"
    /\ UNCHANGED << notSampler, last_downloaded, speeds >>

\* with self.lock: delta = current - last_downloaded; emit speed when delta > 0
SamplerSample ==
    /\ spc = "sample"
    /\ last_downloaded' = downloaded_size
    /\ speeds' = IF downloaded_size - last_downloaded > 0 THEN speeds + 1 ELSE speeds
    /\ spc' = "loop"
    /\ UNCHANGED notSampler

SamplerStep == SamplerLoop \/ SamplerWake \/ SamplerSample

\* --------------------------------------- GUI thread: pause / resume / stop

notCtl == << save_path, threads, total_size, threads_arg, calc, downloaded_size, last_downloaded, runVars, workerVars,
             file, signalVars, spc >>

\* the GUI calls the three methods on a worker it has started
CanCall == runPc # "idle" /\ ctl \in {"ready", "stop_ret"}

\* pause(): self.paused = True
Pause ==
    /\ CanCall
    /\ paused' = TRUE
    /\ incSincePause' = [w \in Workers |-> 0]
    /\ ctl' = "ready"
    /\ UNCHANGED << notCtl, running, stoppedMid >>

\* resume(): self.paused = False
Resume ==
    /\ CanCall
    /\ paused' = FALSE
    /\ incSincePause' = [w \in Workers |-> 0]
    /\ ctl' = "ready"
    /\ UNCHANGED << notCtl, running, stoppedMid >>

\* stop(), first statement: self.running = False
StopSetRunning ==
    /\ CanCall
    /\ running' = FALSE
    /\ stoppedMid' = (stoppedMid \/ \E w \in 0 .. (threads - 1) : ~ Exited(w))
    /\ ctl' = "stop_paused"
    /\ UNCHANGED << notCtl, paused, incSincePause >>

\* stop(), second statement: self.paused = False
StopClearPaused ==
    /\ ctl = "stop_paused"
    /\ paused' = FALSE
    /\ incSincePause' = [w \in Workers |-> 0]
    /\ ctl' = "stop_wait"
    /\ UNCHANGED << notCtl, running, stoppedMid >>

StopWait_returnsAtOnce ==
    /\ ctl = "stop_wait"
    /\ ctl' = "stop_ret"
    /\ UNCHANGED << notCtl, running, paused, incSincePause, stoppedMid >>

\* stop(), third statement: self.wait() returns when run() has returned
StopWait ==
    /\ ctl = "stop_wait"
    /\ runPc = "done"
    /\ ctl' = "stop_ret"
    /\ UNCHANGED << notCtl, running, paused, incSincePause, stoppedMid >>

StopStep == StopClearPaused \/ StopWait

\* ------------------------------------------------------------ specification

Next ==
    \/ Start
    \/ RunStep
    \/ \E w \in Workers : WorkerStep(w)
    \/ SamplerStep
    \/ Pause
    \/ Resume
    \/ StopSetRunning
    \/ StopStep

Spec == Init /\ [][Next]_vars

\* Threads of the process are scheduled fairly, and every pending network
\* read returns.  The GUI thread is under no obligation to call anything, but
\* once inside stop() it goes on.
FairSpec ==
    /\ Spec
    /\ WF_vars(RunStep)
    /\ \A w \in Workers : WF_vars(WorkerStep(w))
    /\ WF_vars(SamplerStep)
    /\ WF_vars(StopStep)

TypeOK ==
    /\ running \in BOOLEAN /\ paused \in BOOLEAN
    /\ threads \in 1 .. ThreadLimit
    /\ total_size \in 0 .. MaxTotal
    /\ downloaded_size \in Nat
    /\ Len(finished) \in Nat

\* ------------------------------------------------------------ properties

Launched == 0 .. (spawned - 1)

\* the increment a worker holds between receiving it and writing it
Pending(w) ==
    IF wpc[w] \in {"chkrun", "chkpause", "pausewait", "chkrun2", "write"}
      THEN chunk[w] ELSE 0

\* offsets of the destination that some worker has written
Written == { o \in 0 .. (Len(file) - 1) : file[o + 1] # {} }

\* C1: when stop() writes running = False while a chunk worker has not yet
\* exited, finished is never emitted for the transfer, also when
\* downloaded_size has reached total_size.
C1_StopMidTransferNeverFinishes == stoppedMid => finished = << >>

C1_Witness ==
    /\ stoppedMid
    /\ runPc = "done"
    /\ total_size > 0
    /\ downloaded_size = total_size
    /\ finished = << >>

\* C2: once stop() has written running = False, no step emits finished,
\* whatever run() was doing when the write happened.
C2_NoFinishedAfterStopFlag == [][~ running => finished' = finished]_vars

\* C3: when the request or the stream of a chunk worker has failed, the error
\* signal has been emitted and finished is not emitted.
C3_ChunkFailureNeverFinishes ==
    (\E w \in Workers : wpc[w] = "failed") => (errors # << >> /\ finished = << >>)

\* C4: whenever finished has been emitted, downloaded_size equals total_size,
\* every offset 0 .. total_size-1 of the destination has been written and the
\* length of the file is total_size.
C4_FinishedMeansComplete ==
    finished # << >> =>
        /\ downloaded_size = total_size
        /\ Written = 0 .. (total_size - 1)
        /\ Len(file) = total_size

\* C5 as stated: while the pause flag stays set, downloaded_size does not grow.
C5_NoGrowthWhilePaused ==
    [][(paused /\ paused') => downloaded_size' <= downloaded_size]_vars

\* C5: while the pause flag is set, each chunk worker adds at most one
\* increment to downloaded_size (the one whose pause check it had passed
\* before the flag was set).
C5_AtMostOneIncrementWhilePaused ==
    paused => \A w \in Workers : incSincePause[w] <= 1

C5_Witness ==
    /\ paused
    /\ running
    /\ \E w \in Workers : incSincePause[w] = 1 /\ wpc[w] = "pausewait"

\* C6: across pause() and resume() a worker's file cursor stays at
\* start + (bytes it has written), the bytes it has received are the bytes it
\* has written plus the increment it holds, the cells it has written are
\* exactly start .. start + written - 1, and a change of the pause flag
\* leaves downloaded_size as it is.
C6_State ==
    \A w \in Launched :
        wpc[w] \notin {"get", "failed"} =>
            /\ pos[w] = start[w] + downloaded[w]
            /\ running => received[w] = downloaded[w] + Pending(w)
            /\ { o \in 0 .. (Len(file) - 1) : w \in file[o + 1] }
                   = start[w] .. (start[w] + downloaded[w] - 1)

C6_ResumeContinuesAtOffset ==
    /\ [] C6_State
    /\ [][paused' # paused => downloaded_size' = downloaded_size]_vars

C6_Witness ==
    \E w \in Launched :
        /\ wpc[w] = "chkrun2"
        /\ running /\ ~ paused
        /\ downloaded[w] > 0
        /\ chunk[w] > 0
        /\ pos[w] = start[w] + downloaded[w]

\* C7: when run() has returned after finding running set and paused clear
\* once all workers had exited, finished has been emitted exactly once, with
\* save_path; finished is never emitted more than once.
C7_FinishedExactlyOnce ==
    /\ Len(finished) <= 1
    /\ (runPc = "done" /\ cond = "true") => finished = << save_path >>

C7_Witness ==
    /\ runPc = "done"
    /\ cond = "true"
    /\ \A w \in Launched : Exited(w)
    /\ finished = << save_path >>

\* C8: a stop() that has begun returns, and when it has returned run() has
\* returned and every chunk worker has exited.
C8_StopReturns ==
    /\ [](ctl = "stop_ret" =>
            (runPc = "done" /\ \A w \in Workers : wpc[w] = "none" \/ Exited(w)))
    /\ (ctl = "stop_paused") ~> (ctl = "stop_ret")

\* stop() has returned after a worker broke out of its loop with an increment
\* it had received and not written
C8_Witness ==
    /\ ctl = "stop_ret"
    /\ runPc = "done"
    /\ \E w \in Launched : wpc[w] = "done" /\ chunk[w] > 0
    /\ downloaded_size < total_size

C10_RangesPartition ==
    (spawned = threads /\ total_size >= threads) =>
        /\ \A i \in 0 .. (threads - 1) : start[i] <= end[i]
        /\ start[0] = 0
        /\ end[threads - 1] = total_size - 1
        /\ \A i \in 0 .. (threads - 2) : start[i + 1] = end[i] + 1
        /\ \A i, j \in 0 .. (threads - 1) :
              i # j => (start[i] .. end[i]) \cap (start[j] .. end[j]) = {}
        /\ UNION { start[i] .. end[i] : i \in 0 .. (threads - 1) }
              = 0 .. (total_size - 1)

C10_Witness ==
    /\ spawned = threads
    /\ threads = 2
    /\ total_size = 3
    /\ start[0] = 0 /\ end[0] = 0
    /\ start[1] = 1 /\ end[1] = 2

\* sum of f[w] over the workers in S
RECURSIVE SumOver(_, _)
SumOver(f, S) ==
    IF S = {} THEN 0
    ELSE LET w == CHOOSE x \in S : TRUE IN f[w] + SumOver(f, S \ {w})

AllExited == runPc \in {"join", "chkpaused", "emit", "done"} /\ joined = threads

\* C11, first half: once every chunk worker has exited, downloaded_size is the
\* sum of the bytes the workers wrote.
C11_CounterIsSumOfWrites ==
    AllExited => downloaded_size = SumOver(downloaded, Launched)

\* C11: once every chunk worker has exited, downloaded_size is the sum of the
\* bytes the workers wrote, and when the transfer has ended with finished that
\* sum is total_size.
C11_SumOfWritesIsTotalOnSuccess ==
    AllExited =>
        /\ downloaded_size = SumOver(downloaded, Launched)
        /\ finished # << >> => SumOver(downloaded, Launched) = total_size

\* C12: when the probe has reported no length (total_size is 0 after the
\* probe), run() has returned with an error emitted, no chunk worker and no
\* sampler were started, nothing was downloaded and finished is not emitted.
C12_NoLengthIsFatal ==
    (runPc \notin {"idle", "probe"} /\ total_size = 0) =>
        /\ runPc = "done"
        /\ errors # << >>
        /\ spawned = 0
        /\ \A w \in Workers : wpc[w] = "none"
        /\ spc = "none"
        /\ downloaded_size = 0
        /\ finished = << >>

C12_Witness ==
    /\ runPc = "done"
    /\ total_size = 0
    /\ errors = << MsgNoSize >>
    /\ spc = "none"
    /\ finished = << >>

\* ------------------------------------------- thread count: __init__ and run()
\* The clamp of the thread argument and the loop that starts the threads, for
\* arguments on both sides of the clamp.  Only the starts are counted here:
\* the chunk workers take no step.

ThreadArgs == (0 - ArgSlack) .. (ThreadLimit + ArgSlack)

InitThreads ==
    /\ \E t \in ThreadArgs : Construct(t)
    /\ calc = NoCall

\* one iteration of "for i in range(self.threads)": thread.start()
LaunchThread ==
    /\ runPc = "spawn"
    /\ spawned < threads
    /\ spawned' = spawned + 1
    /\ UNCHANGED << fieldVars, running, paused, downloaded_size, last_downloaded,
                    runPc, joined, cond, workerVars, file, signalVars, spc, ctl,
                    incSincePause >>

NextThreads == Start \/ Probe \/ Create \/ LaunchThread \/ StartSampler

SpecThreads == InitThreads /\ [][NextThreads]_vars

\* C13: for every thread argument t, below 1, inside 1 .. 64 or above 64, run()
\* starts exactly max(1, min(64, t)) chunk workers: never more while the loop
\* runs, and exactly that many once the loop is over.
C13_LaunchedIsClamped ==
    LET want == IF threads_arg < 1 THEN 1
                ELSE IF threads_arg > ThreadLimit THEN ThreadLimit
                ELSE threads_arg
    IN  /\ spawned <= want
        /\ runPc = "join" => spawned = want

C13_Witness ==
    /\ runPc = "join"
    /\ threads_arg > ThreadLimit
    /\ spawned = ThreadLimit

\* C14 as stated: no speed signal is emitted at a moment when paused is True.
C14_NoSpeedWhilePaused == [][speeds' # speeds => ~ paused']_vars

\* C14: a speed signal is emitted only by the sampling step, and the sampler
\* enters that step only from a wake-up check that found running set and
\* paused clear; the flag is not read again before the emission.
C14_SpeedOnlyAfterClearCheck ==
    [][ /\ speeds' # speeds => (spc = "sample" /\ spc' = "loop")
        /\ (spc # "sample" /\ spc' = "sample") => (spc = "wait" /\ running /\ ~ paused)
      ]_vars

\* the sampler is about to emit although pause() has set the flag meanwhile
C14_Witness ==
    /\ spc = "sample"
    /\ paused
    /\ downloaded_size > last_downloaded

\* ------------------------------------------------------------------- C15
\* The progress formula on sizes up to ProgressMax: one chunk thread that
\* owns the whole file, taken from the moment its GET has been answered;
\* nobody pauses or stops the transfer.
InitProgress ==
    \E T \in 1 .. ProgressMax :
        /\ save_path \in Paths
        /\ threads_arg = 1
        /\ threads = ClampThreads(1)
        /\ running = TRUE
        /\ paused = FALSE
        /\ total_size = T
        /\ downloaded_size = 0
        /\ last_downloaded = 0
        /\ runPc = "join"
        /\ spawned = 1
        /\ joined = 0
        /\ cond = "unset"
        /\ wpc = [w \in Workers |-> IF w = 0 THEN "iter" ELSE "none"]
        /\ start = [w \in Workers |-> IF w = 0 THEN RangeStart(0, T, 1) ELSE 0]
        /\ end = [w \in Workers |-> IF w = 0 THEN RangeEnd(0, T, 1) ELSE 0]
        /\ received = [w \in Workers |-> 0]
        /\ chunk = [w \in Workers |-> 0]
        /\ pos = [w \in Workers |-> 0]
        /\ downloaded = [w \in Workers |-> 0]
        /\ file = << >>
        /\ finished = << >>
        /\ errors = << >>
        /\ progress = -1
        /\ speeds = 0
        /\ spc = "loop"
        /\ ctl = "ready"
        /\ incSincePause = [w \in Workers |-> 0]
        /\ stoppedMid = FALSE
        /\ calc = NoCall

NextProgress ==
    \/ Iter(0)
    \/ CheckRun(0)
    \/ CheckPause(0)
    \/ Write(0)
    \/ Count(0)

SpecProgress == InitProgress /\ [][NextProgress]_vars

\* ---- run() on an existing file system: the directory of save_path exists
\* or not, and save_path may hold a file with earlier content (cells written
\* by OldData); calc keeps the directory and what was there at the start
OldData == -1

ExistingFiles == { [o \in 1 .. n |-> {OldData}] : n \in 0 .. MaxTotal }

InitProbe ==
    /\ save_path \in Paths
    /\ threads_arg = 1
    /\ threads = ClampThreads(1)
    /\ running = TRUE
    /\ paused = FALSE
    /\ total_size = 0
    /\ downloaded_size = 0
    /\ last_downloaded = 0
    /\ runPc = "idle"
    /\ spawned = 0
    /\ joined = 0
    /\ cond = "unset"
    /\ wpc = [w \in Workers |-> "none"]
    /\ start = [w \in Workers |-> 0]
    /\ end = [w \in Workers |-> 0]
    /\ received = [w \in Workers |-> 0]
    /\ chunk = [w \in Workers |-> 0]
    /\ pos = [w \in Workers |-> 0]
    /\ downloaded = [w \in Workers |-> 0]
    /\ file \in ExistingFiles
    /\ finished = << >>
    /\ errors = << >>
    /\ progress = -1
    /\ speeds = 0
    /\ spc = "none"
    /\ ctl = "ready"
    /\ incSincePause = [w \in Workers |-> 0]
    /\ stoppedMid = FALSE
    /\ \E d \in BOOLEAN :
         /\ file # << >> => d
         /\ calc = [fn |-> "fs", dir |-> d, dir0 |-> d, file0 |-> file]

NextProbe ==
    \/ Start \/ Probe \/ Create \/ Spawn \/ StartSampler
    \/ Get(0) \/ Iter(0) \/ CheckRun(0) \/ CheckPause(0) \/ Write(0) \/ Count(0)
    \/ Join \/ CheckRunning \/ CheckPaused \/ EmitFinished

SpecProbe == InitProbe /\ [][NextProbe]_vars

\* C15 (first part): downloaded_size never decreases during a transfer.
C15_CounterNeverDecreases == [][downloaded_size' >= downloaded_size]_vars

\* C15 (last part): the emitted progress values form a non-decreasing sequence.
C15_ProgressNeverDecreases == [][progress' >= progress]_vars

\* C15: every emitted progress value equals floor(100 * downloaded_size /
\* total_size), computed from the counter's value at the moment of emission.
C15_ProgressIsFloor ==
    progress # -1 => progress = (100 * downloaded_size) \div total_size

\* ------------------------------------------------------------------- C16
\* C16: once a chunk worker has reported an error the transfer is aborted:
\* a worker whose range request was not yet answered at that moment
\* transfers at most one increment afterwards (an increment of one byte is
\* never followed by a second one).
C16_FirstErrorAbortsTransfer ==
    \A v \in Workers :
        [] ( (errors # << >> /\ wpc[v] \in {"none", "get"})
               => [] (downloaded[v] = 1 => [] (downloaded[v] = 1)) )

\* ================================================== VersionManager ========
\* Tag names are sequences of one-character strings.

DigitChars == << "0", "1", "2", "3", "4", "5", "6", "7", "8", "9" >>

LetterChars ==
    { "a", "b", "c", "d", "e", "f", "g", "h", "i", "j", "k", "l", "m",
      "n", "o", "p", "q", "r", "s", "t", "u", "v", "w", "x", "y", "z",
      "A", "B", "C", "D", "E", "F", "G", "H", "I", "J", "K", "L", "M",
      "N", "O", "P", "Q", "R", "S", "T", "U", "V", "W", "X", "Y", "Z" }

NewLine == "\n"

IsDigit(c)  == \E n \in DOMAIN DigitChars : DigitChars[n] = c
IsLetter(c) == c \in LetterChars

\* int(c) of a decimal digit
DigitValue(c) == (CHOOSE n \in DOMAIN DigitChars : DigitChars[n] = c) - 1

\* all strings over alphabet A of length at most n
StringsUpTo(A, n) == UNION { [1 .. k -> A] : k \in 0 .. n }

\* re.search(r'-([a-zA-Z]+.*)$', s).group(1), or '' without a match: the
\* leftmost '-' that is followed by a letter; '.*' runs to the end of the
\* line and '$' accepts the end of the string or a final line break
PreReleaseAt(s, i) ==
    LET breaks == { j \in (i + 1) .. Len(s) : s[j] = NewLine }
        stop   == IF breaks = {} THEN Len(s) + 1
                  ELSE CHOOSE j \in breaks : \A k \in breaks : j <= k
    IN  [ok |-> /\ s[i] = "-"
                /\ i < Len(s)
                /\ IsLetter(s[i + 1])
                /\ stop >= Len(s),
         group |-> SubSeq(s, i + 1, stop - 1)]

SearchPreRelease_last(s) ==
    LET hits == { i \in 1 .. Len(s) : PreReleaseAt(s, i).ok }
    IN  IF hits = {} THEN << >>
        ELSE PreReleaseAt(s, CHOOSE i \in hits : \A k \in hits : i >= k).group

SearchPreRelease(s) ==
    LET hits == { i \in 1 .. Len(s) : PreReleaseAt(s, i).ok }
    IN  IF hits = {} THEN << >>
        ELSE PreReleaseAt(s, CHOOSE i \in hits : \A k \in hits : i <= k).group

\* s.replace(old, ""), old not empty: the occurrences are found left to right
\* and do not overlap
RECURSIVE Replace(_, _)
Replace(s, old) ==
    IF Len(s) < Len(old) THEN s
    ELSE IF SubSeq(s, 1, Len(old)) = old
      THEN Replace(SubSeq(s, Len(old) + 1, Len(s)), old)
    ELSE << s[1] >> \o Replace(Tail(s), old)

\* [int(part) for part in re.findall(r'\d+', s)]: the maximal runs of digits,
\* cur is the value of the run that ends at the head of s when open is TRUE
RECURSIVE DigitRunsFrom(_, _, _)
DigitRunsFrom(s, cur, open) ==
    IF s = << >> THEN (IF open THEN << cur >> ELSE << >>)
    ELSE IF IsDigit(s[1])
      THEN DigitRunsFrom(Tail(s), (IF open THEN cur * 10 ELSE 0) + DigitValue(s[1]), TRUE)
    ELSE (IF open THEN << cur >> ELSE << >>) \o DigitRunsFrom(Tail(s), 0, FALSE)

DigitRuns_zeroFallback(s) ==
    IF DigitRunsFrom(s, 0, FALSE) = << >> THEN << 0 >>
    ELSE DigitRunsFrom(s, 0, FALSE)

DigitRuns(s) == DigitRunsFrom(s, 0, FALSE)

PreReleasePriority == 50
FinalPriority      == 100

\* version_str.replace(f"-{pre_release}", "") if pre_release else version_str
MainVersionStr(version_str) ==
    IF SearchPreRelease(version_str) # << >>
      THEN Replace(version_str, << "-" >> \o SearchPreRelease(version_str))
      ELSE version_str

parse_version_ranksSwapped(version_str) ==
    LET pre_release      == SearchPreRelease(version_str)
        main_version_str == MainVersionStr(version_str)
        main_parts       == DigitRuns(main_version_str)
        pre_runs         == DigitRuns(pre_release)
    IN  << main_parts,
           IF pre_release # << >> THEN FinalPriority ELSE PreReleasePriority,
           IF pre_release # << >> /\ pre_runs # << >> THEN pre_runs[1] ELSE 0 >>

\* VersionManager.parse_version: (main_parts, pre_release_priority, pre_release_num)
parse_version(version_str) ==
    LET pre_release      == SearchPreRelease(version_str)
        main_version_str == MainVersionStr(version_str)
        main_parts       == DigitRuns(main_version_str)
        pre_runs         == DigitRuns(pre_release)
    IN  << main_parts,
           IF pre_release # << >> THEN PreReleasePriority ELSE FinalPriority,
           IF pre_release # << >> /\ pre_runs # << >> THEN pre_runs[1] ELSE 0 >>

\* ---- Python's ordering of the keys
\* int with int; anything else with an int has no order ("error": TypeError)
CmpInt(x, y) ==
    IF ~ (x \in Int /\ y \in Int) THEN "error"
    ELSE IF x < y THEN "lt" ELSE IF x > y THEN "gt" ELSE "eq"

CmpList_ignoresLength(a, b) ==
    LET diff == { i \in DOMAIN a \cap DOMAIN b : a[i] # b[i] }
    IN  IF diff = {} THEN "eq"
        ELSE LET i == CHOOSE j \in diff : \A k \in diff : j <= k
             IN  CmpInt(a[i], b[i])

\* list with list: the first position where the two differ decides, a list
\* that is a proper prefix of the other is the smaller one
CmpList(a, b) ==
    LET diff == { i \in DOMAIN a \cap DOMAIN b : a[i] # b[i] }
    IN  IF diff = {} THEN CmpInt(Len(a), Len(b))
        ELSE LET i == CHOOSE j \in diff : \A k \in diff : j <= k
             IN  CmpInt(a[i], b[i])

CmpKey_rankFirst(k1, k2) ==
    IF k1[2] # k2[2] THEN CmpInt(k1[2], k2[2])
    ELSE IF k1[1] # k2[1] THEN CmpList(k1[1], k2[1])
    ELSE CmpInt(k1[3], k2[3])

\* tuple with tuple, component by component
CmpKey(k1, k2) ==
    IF k1[1] # k2[1] THEN CmpList(k1[1], k2[1])
    ELSE IF k1[2] # k2[2] THEN CmpInt(k1[2], k2[2])
    ELSE CmpInt(k1[3], k2[3])

KeyLess(k1, k2) == CmpKey(k1, k2) = "lt"
KeyLeq(k1, k2)  == CmpKey(k1, k2) \in {"lt", "eq"}

SortedDescending_keepsOrder(keys) ==
    [raised |-> FALSE, order |-> [i \in DOMAIN keys |-> i]]

\* list.sort(key=..., reverse=True) is stable: descending keys, items with
\* equal keys stay in their original order.  The indices in sorted order;
\* raised when a comparison raises TypeError; comparisons that contradict
\* each other raise nothing and leave some order (here: the original one).
SortedDescending(keys) ==
    LET ok(p) == \A i, j \in DOMAIN keys :
                    i < j => /\ ~ KeyLess(keys[p[i]], keys[p[j]])
                             /\ CmpKey(keys[p[i]], keys[p[j]]) = "eq" => p[i] < p[j]
        perms == { p \in Permutations(DOMAIN keys) : ok(p) }
    IN  IF \E i, j \in DOMAIN keys : CmpKey(keys[i], keys[j]) = "error"
          THEN [raised |-> TRUE, order |-> << >>]
        ELSE IF perms = {}
          THEN [raised |-> FALSE, order |-> [i \in DOMAIN keys |-> i]]
        ELSE LET p == CHOOSE q \in perms : TRUE
             IN  [raised |-> FALSE, order |-> [i \in DOMAIN keys |-> p[i]]]

\* ---- get_versions: the releases are sorted by parse_version of their tag
TagAlphabet    == {"-", "b", "1"}
PrefixAlphabet == {"-", "b", "1", "."}
PairDigits     == {"1", "9"}

TagNames == StringsUpTo(TagAlphabet, MaxTagLen)

\* a final release and a beta of the same version: X-<d>.<d> and X-b<d>
FinalTag(X, d1, d2) == X \o << "-", d1, ".", d2 >>
BetaTag(X, d)       == X \o << "-", "b", d >>

\* the two tag names of test_version_parsing's naming scheme
ExampleFinal ==
    << "E", "n", "d", "l", "e", "s", "s", "P", "i", "x", "e", "l", ".", "1", ".",
       "2", "1", ".", "0", "-", "v", "1", "0", "-", "1", ".", "6" >>
ExampleBeta ==
    << "E", "n", "d", "l", "e", "s", "s", "P", "i", "x", "e", "l", ".", "1", ".",
       "2", "1", ".", "0", "-", "v", "1", "0", "-", "b", "9" >>

ReleaseLists ==
    { << a, b, c >> : a \in TagNames, b \in TagNames, c \in TagNames }
    \cup { << ExampleFinal, ExampleBeta >> }
    \cup { << FinalTag(X, dd[1], dd[2]), BetaTag(X, dd[3]) >> :
             X \in StringsUpTo(PrefixAlphabet, MaxPrefixLen),
             dd \in [1 .. 3 -> PairDigits] }

InitVersions ==
    /\ Construct(1)
    /\ \E l \in ReleaseLists : calc = [fn |-> "sort", tags |-> l]

\* releases.sort(key=lambda x: self.parse_version(x['tag_name']), reverse=True)
SortReleases ==
    /\ calc.fn = "sort"
    /\ LET keys == [i \in DOMAIN calc.tags |-> parse_version(calc.tags[i])]
           done == SortedDescending(keys)
       IN  calc' = [fn     |-> "sorted",
                    tags   |-> calc.tags,
                    keys   |-> keys,
                    order  |-> done.order,
                    result |-> [i \in DOMAIN done.order |-> calc.tags[done.order[i]]],
                    raised |-> done.raised]
    /\ UNCHANGED << save_path, threads, stoppedMid, threads_arg, running, paused,
                    total_size, downloaded_size, last_downloaded, runVars,
                    workerVars, file, signalVars, spc, ctl, incSincePause >>

NextVersions == SortReleases

SpecVersions == InitVersions /\ [][NextVersions]_vars

\* ---- pairs of tag names in the shape of the project's tags: up to
\* MaxComponents numbers joined by dots, then up to two parts -b<d> / -v<d>
ComponentDigits == {"1", "2"}

RECURSIVE JoinDots(_)
JoinDots(ds) ==
    IF ds = << >> THEN << >>
    ELSE IF Len(ds) = 1 THEN << ds[1] >>
    ELSE << ds[1], "." >> \o JoinDots(Tail(ds))

DottedNumbers == { JoinDots(ds) : ds \in StringsUpTo(ComponentDigits, MaxComponents) }

SuffixParts == { << "-", "b", "1" >>, << "-", "b", "2" >>, << "-", "v", "1" >> }

Suffixes == { << >> } \cup SuffixParts \cup { a \o b : a \in SuffixParts, b \in SuffixParts }

VersionTags == { n \o x : n \in DottedNumbers, x \in Suffixes }

InitKeys ==
    /\ Construct(1)
    /\ \E a \in VersionTags, b \in VersionTags : calc = [fn |-> "sort", tags |-> << a, b >>]

SpecKeys == InitKeys /\ [][NextVersions]_vars

\* ------------------------------------------------------------------- C17
\* l is << X-<d>.<d>, X-b<d> >>: a final sub-version and a beta marker after
\* the same leading part
FinalBetaPair(l) ==
    /\ Len(l) = 2
    /\ Len(l[1]) >= 4
    /\ Len(l[2]) >= 3
    /\ SubSeq(l[1], 1, Len(l[1]) - 4) = SubSeq(l[2], 1, Len(l[2]) - 3)
    /\ l[1][Len(l[1]) - 3] = "-"
    /\ IsDigit(l[1][Len(l[1]) - 2])
    /\ l[1][Len(l[1]) - 1] = "."
    /\ IsDigit(l[1][Len(l[1])])
    /\ l[2][Len(l[2]) - 2] = "-"
    /\ l[2][Len(l[2]) - 1] = "b"
    /\ IsDigit(l[2][Len(l[2])])

\* C17: of two tag names with the same leading part, one ending in a final
\* sub-version -<d>.<d> and one in a beta marker -b<d>, parse_version gives
\* the final one the strictly greater key.
C17_FinalAboveBeta ==
    (calc.fn = "sorted" /\ FinalBetaPair(calc.tags))
        => KeyLess(calc.keys[2], calc.keys[1])

\* ------------------------------------------------------------------- C18
\* C18: the keys of any tag names are comparable (a <= b or b <= a), <= is
\* transitive on them, and the sort raises nothing and leaves the list in
\* non-increasing key order.
C18_TotalPreorder ==
    calc.fn = "sorted" =>
        /\ ~ calc.raised
        /\ \A i, j \in DOMAIN calc.keys :
             KeyLeq(calc.keys[i], calc.keys[j]) \/ KeyLeq(calc.keys[j], calc.keys[i])
        /\ \A i, j, k \in DOMAIN calc.keys :
             (KeyLeq(calc.keys[i], calc.keys[j]) /\ KeyLeq(calc.keys[j], calc.keys[k]))
                 => KeyLeq(calc.keys[i], calc.keys[k])
        /\ \A i, j \in DOMAIN calc.order :
             i < j => KeyLeq(calc.keys[calc.order[j]], calc.keys[calc.order[i]])

\* three tag names in strictly increasing key order, a pre-release among
\* them, have been sorted into the reverse order
C18_Witness ==
    /\ calc.fn = "sorted"
    /\ Len(calc.tags) = 3
    /\ KeyLess(calc.keys[1], calc.keys[2])
    /\ KeyLess(calc.keys[2], calc.keys[3])
    /\ calc.keys[1][2] = PreReleasePriority
    /\ calc.result = << calc.tags[3], calc.tags[2], calc.tags[1] >>

\* ------------------------------------------------------------------- C19
\* no digit of s lies in its main version string: every digit comes after a
\* '-' that is followed by a letter
NoDigitInMain(s) ==
    \A i \in 1 .. Len(s) :
        IsDigit(s[i]) => \E j \in 1 .. (i - 1) : s[j] = "-" /\ IsLetter(s[j + 1])

\* C19 as stated: such a tag name gets a sequence of zeros as its numeric
\* components, and nothing is raised.
C19_AllZeroFallback ==
    calc.fn = "sorted" =>
        \A i \in DOMAIN calc.tags :
            NoDigitInMain(calc.tags[i]) =>
                /\ ~ calc.raised
                /\ calc.keys[i][1] # << >>
                /\ \A n \in DOMAIN calc.keys[i][1] : calc.keys[i][1][n] = 0

\* C19 (amended): such a tag name gets the empty sequence as its numeric
\* components, which is below every non-empty sequence, and nothing is raised.
C19_EmptyComponents ==
    calc.fn = "sorted" =>
        \A i \in DOMAIN calc.tags :
            NoDigitInMain(calc.tags[i]) =>
                /\ ~ calc.raised
                /\ calc.keys[i][1] = << >>
                /\ \A j \in DOMAIN calc.tags :
                     calc.keys[j][1] # << >> => KeyLess(calc.keys[i], calc.keys[j])

\* a list with the tag name "-b" (no digit at all) and a tag name with
\* numeric components has been sorted
C19_Witness ==
    /\ calc.fn = "sorted"
    /\ \E i, j \in DOMAIN calc.tags :
         /\ calc.tags[i] = << "-", "b" >>
         /\ calc.keys[i] = << << >>, PreReleasePriority, 0 >>
         /\ calc.keys[j][1] # << >>
    /\ ~ calc.raised

\* =================================================== MirrorManager ========
\* A URL string is written as its parts: scheme, netloc, whether the path
\* starts with '/', and the path's segments (a final "" segment: the path
\* ends with '/').  The empty string has no part at all.  Paths hold no '.'
\* or '..' segment, no URL has a query or a fragment.
EmptyUrl == [scheme |-> "", netloc |-> "", rooted |-> FALSE, segs |-> << >>]

\* a stored mirror prefix: a URL string, possibly with blanks around it
EmptyPrefix == [pad |-> FALSE, url |-> EmptyUrl]

\* bool(s) of a string: it has at least one character
Truthy(prefix) == prefix.pad \/ prefix.url # EmptyUrl

\* s.strip()
Strip(prefix) == [prefix EXCEPT !.pad = FALSE]

\* urllib.parse.urljoin(base, url)
urljoin(base, u) ==
    LET scheme == IF u.scheme = "" THEN base.scheme ELSE u.scheme
        front  == IF base.segs = << >> THEN << >>
                  ELSE SubSeq(base.segs, 1, Len(base.segs) - 1)
    IN  IF base = EmptyUrl THEN u
        ELSE IF u = EmptyUrl THEN base
        ELSE IF scheme # base.scheme THEN u
        ELSE IF u.netloc # "" THEN [u EXCEPT !.scheme = scheme]
        ELSE IF u.rooted
          THEN [scheme |-> scheme, netloc |-> base.netloc, rooted |-> TRUE,
                segs |-> u.segs]
        ELSE [scheme |-> scheme, netloc |-> base.netloc,
              rooted |-> base.rooted \/ base.segs = << >>,
              segs |-> front \o u.segs]

MirrorOf_firstMirror(mirrors, mirror_name) ==
    IF mirror_name \in DOMAIN mirrors THEN mirrors[mirror_name]
    ELSE IF \E n \in DOMAIN mirrors : Truthy(mirrors[n])
      THEN mirrors[CHOOSE n \in DOMAIN mirrors : Truthy(mirrors[n])]
    ELSE EmptyPrefix

\* mirrors.get(mirror_name, "")
MirrorOf(mirrors, mirror_name) ==
    IF mirror_name \in DOMAIN mirrors THEN mirrors[mirror_name] ELSE EmptyPrefix

\* MirrorManager.get_mirror_url
get_mirror_url(mirrors, original_url, mirror_name) ==
    LET mirror_url == MirrorOf(mirrors, mirror_name)
    IN  IF Truthy(mirror_url)
          THEN urljoin(Strip(mirror_url).url, original_url)
          ELSE original_url

\* ---- the values the mirror operations are called with
ProxyUrl ==
    [scheme |-> "https", netloc |-> "gh-proxy.org", rooted |-> TRUE, segs |-> << "" >>]

MirrorNames == {"GitHub", "Cloudflare", "Custom"}

Prefixes ==
    { EmptyPrefix,
      [pad |-> TRUE, url |-> EmptyUrl],
      [pad |-> FALSE, url |-> ProxyUrl],
      [pad |-> TRUE, url |-> ProxyUrl],
      [pad |-> FALSE,
       url |-> [scheme |-> "", netloc |-> "", rooted |-> FALSE,
                segs |-> << "gh-proxy.org", "" >>]] }

OriginalUrls ==
    { EmptyUrl,
      [scheme |-> "https", netloc |-> "github.com", rooted |-> TRUE,
       segs |-> << "download", "pack.zip" >>],
      [scheme |-> "", netloc |-> "", rooted |-> TRUE,
       segs |-> << "download", "pack.zip" >>],
      [scheme |-> "", netloc |-> "", rooted |-> FALSE, segs |-> << "pack.zip" >>] }

\* the "mirrors" section of the default configuration, as far as the names go
DefaultMirrors ==
    [n \in {"GitHub", "Cloudflare"} |->
        IF n = "GitHub" THEN EmptyPrefix ELSE [pad |-> FALSE, url |-> ProxyUrl]]

InitMirrors ==
    /\ Construct(1)
    /\ calc = [fn |-> "mirror", mirrors |-> DefaultMirrors, last |-> [op |-> "none"]]

keepWorker ==
    << save_path, threads, stoppedMid, threads_arg, running, paused, total_size,
       downloaded_size, last_downloaded, runVars, workerVars, file, signalVars,
       spc, ctl, incSincePause >>

AddMirror_keepsExisting ==
    /\ calc.fn = "mirror"
    /\ \E name \in MirrorNames, prefix \in Prefixes :
         calc' = [calc EXCEPT
                    !.mirrors = [n \in DOMAIN calc.mirrors \cup {name} |->
                                   IF n \in DOMAIN calc.mirrors
                                     THEN calc.mirrors[n] ELSE prefix],
                    !.last = [op |-> "add_mirror", name |-> name, prefix |-> prefix]]
    /\ UNCHANGED keepWorker

\* add_mirror(name, url): self.config["mirrors"][name] = url
AddMirror ==
    /\ calc.fn = "mirror"
    /\ \E name \in MirrorNames, prefix \in Prefixes :
         calc' = [calc EXCEPT
                    !.mirrors = [n \in DOMAIN calc.mirrors \cup {name} |->
                                   IF n = name THEN prefix ELSE calc.mirrors[n]],
                    !.last = [op |-> "add_mirror", name |-> name, prefix |-> prefix]]
    /\ UNCHANGED keepWorker

\* remove_mirror(name): del self.config["mirrors"][name] when it is there
RemoveMirror ==
    /\ calc.fn = "mirror"
    /\ \E name \in MirrorNames :
         calc' = [calc EXCEPT
                    !.mirrors = [n \in DOMAIN calc.mirrors \ {name} |-> calc.mirrors[n]],
                    !.last = [op |-> "remove_mirror", name |-> name]]
    /\ UNCHANGED keepWorker

\* get_mirror_url(original_url, mirror_name)
GetMirrorUrl ==
    /\ calc.fn = "mirror"
    /\ \E u \in OriginalUrls, name \in MirrorNames :
         calc' = [calc EXCEPT
                    !.last = [op |-> "get_mirror_url", url |-> u, name |-> name,
                              result |-> get_mirror_url(calc.mirrors, u, name)]]
    /\ UNCHANGED keepWorker

\* get_mirror_names(): list(mirrors.keys())
GetMirrorNames ==
    /\ calc.fn = "mirror"
    /\ calc' = [calc EXCEPT
                  !.last = [op |-> "get_mirror_names", result |-> DOMAIN calc.mirrors]]
    /\ UNCHANGED keepWorker

NextMirrors == AddMirror \/ RemoveMirror \/ GetMirrorUrl \/ GetMirrorNames

SpecMirrors == InitMirrors /\ [][NextMirrors]_vars

\* ------------------------------------------------------------------- C20
\* C20: for every URL u and every mirror name that is absent from the mirror
\* table or whose prefix is the empty string, get_mirror_url returns u
\* unchanged.
C20_NoMirrorNoRewrite ==
    (/\ calc.fn = "mirror"
     /\ calc.last.op = "get_mirror_url"
     /\ \/ calc.last.name \notin DOMAIN calc.mirrors
        \/ calc.mirrors[calc.last.name] = EmptyPrefix)
        => calc.last.result = calc.last.url

\* a path-only URL was asked for under a name that is not in the table while
\* the table holds a mirror with a prefix
C20_Witness ==
    /\ calc.fn = "mirror"
    /\ calc.last.op = "get_mirror_url"
    /\ calc.last.name \notin DOMAIN calc.mirrors
    /\ \E n \in DOMAIN calc.mirrors : calc.mirrors[n].url = ProxyUrl
    /\ calc.last.url.scheme = ""
    /\ calc.last.url.segs # << >>
    /\ calc.last.result = calc.last.url

\* ------------------------------------------------------------------- C21
\* C21: the call that follows an add_mirror or a remove_mirror uses the table
\* as that operation left it: get_mirror_url under the added name rewrites
\* with the prefix just given (no rewrite when that prefix is empty), under
\* the removed name it returns the URL unchanged, and get_mirror_names lists
\* the added name and no longer lists the removed one.
C21_ReadsThrough ==
    [][ (calc.fn = "mirror" /\ calc.last.op \in {"add_mirror", "remove_mirror"}) =>
          /\ (calc'.last.op = "get_mirror_url" /\ calc'.last.name = calc.last.name) =>
                calc'.last.result =
                    IF calc.last.op = "add_mirror" /\ Truthy(calc.last.prefix)
                      THEN urljoin(Strip(calc.last.prefix).url, calc'.last.url)
                      ELSE calc'.last.url
          /\ calc'.last.op = "get_mirror_names" =>
                (calc.last.name \in calc'.last.result) = (calc.last.op = "add_mirror")
      ]_vars

\* the prefix of "GitHub", empty at first, has been overwritten and the next
\* call rewrote a path-only URL with it
C21_Witness ==
    /\ calc.fn = "mirror"
    /\ calc.last.op = "get_mirror_url"
    /\ calc.last.name = "GitHub"
    /\ calc.mirrors["GitHub"].url = ProxyUrl
    /\ calc.last.url.scheme = ""
    /\ calc.last.result.netloc = ProxyUrl.netloc

\* ============================== VersionManager: the release catalog =======
\* ---- the two regular expressions of get_versions / extract_mc_version,
\* matched from position i of s; a position of 0 stands for "no match"

\* index after the longest run of digits that starts at i (i itself: no digit)
RECURSIVE DigitsEnd(_, _)
DigitsEnd(s, i) ==
    IF i <= Len(s) /\ IsDigit(s[i]) THEN DigitsEnd(s, i + 1) ELSE i

\* \d+ at i
AfterDigits(s, i) ==
    IF i = 0 \/ DigitsEnd(s, i) = i THEN 0 ELSE DigitsEnd(s, i)

\* the literal text lit at i
AfterLit(s, i, lit) ==
    IF i # 0 /\ i + Len(lit) - 1 <= Len(s) /\ SubSeq(s, i, i + Len(lit) - 1) = lit
      THEN i + Len(lit) ELSE 0

\* (\.\d+)? at i: the group is taken when it matches (what follows the group
\* in both patterns is a '-', which cannot start where the group was dropped)
AfterOptionalPart(s, i) ==
    IF AfterDigits(s, AfterLit(s, i, << "." >>)) # 0
      THEN AfterDigits(s, AfterLit(s, i, << "." >>)) ELSE i

\* '$' at i: the end of the string, or a line break that ends the string
AtEnd(s, i) ==
    \/ i = Len(s) + 1
    \/ i = Len(s) /\ s[i] = NewLine

LitPack   == << "E", "n", "d", "l", "e", "s", "s", "P", "i", "x", "e", "l", "." >>
LitZip    == << "z", "i", "p" >>
LitMrpack == << "m", "r", "p", "a", "c", "k" >>

\* re.match(r'^EndlessPixel\.\d+\.\d+(\.\d+)?-v\d+-(\d+\.\d+|b\d+)\.(zip|mrpack)$', name)
MatchesPattern(name) ==
    LET mc    == AfterDigits(name, AfterLit(name, AfterDigits(name,
                     AfterLit(name, 1, LitPack)), << "." >>))
        ver   == AfterLit(name, AfterDigits(name,
                     AfterLit(name, AfterOptionalPart(name, mc), << "-", "v" >>)),
                     << "-" >>)
        final == AfterDigits(name, AfterLit(name, AfterDigits(name, ver), << "." >>))
        beta  == AfterDigits(name, AfterLit(name, ver, << "b" >>))
        sub   == IF final # 0 THEN final ELSE beta
        dot   == AfterLit(name, sub, << "." >>)
        ext   == IF AfterLit(name, dot, LitZip) # 0 THEN AfterLit(name, dot, LitZip)
                 ELSE AfterLit(name, dot, LitMrpack)
    IN  mc # 0 /\ ext # 0 /\ AtEnd(name, ext)

\* VersionManager.extract_mc_version: group 1 of
\* re.match(r'(\d+\.\d+(?:\.\d+)?)-', tag_name), << >> for None
extract_mc_version_twoOnly(tag_name) ==
    LET two == AfterDigits(tag_name, AfterLit(tag_name, AfterDigits(tag_name, 1), << "." >>))
    IN  IF AfterLit(tag_name, two, << "-" >>) # 0
          THEN SubSeq(tag_name, 1, two - 1) ELSE << >>

extract_mc_version(tag_name) ==
    LET two == AfterDigits(tag_name, AfterLit(tag_name, AfterDigits(tag_name, 1), << "." >>))
        ver == IF two = 0 THEN 0 ELSE AfterOptionalPart(tag_name, two)
    IN  IF AfterLit(tag_name, ver, << "-" >>) # 0
          THEN SubSeq(tag_name, 1, ver - 1) ELSE << >>

\* ---- the remote listing: releases as the API returns them (tag_name, the
\* names of the assets in listed order, body), pages of them, and the chain
\* of pages of one repository
Rel_1_21_final ==
    [tag_name |-> << "1", ".", "2", "1", "-", "v", "1", "0", "-", "1", ".", "6" >>,
     assets   |-> << << "n", "o", "t", "e", "s", ".", "t", "x", "t" >>,
                   << "E", "n", "d", "l", "e", "s", "s", "P", "i", "x", "e", "l", ".", "1",
                      ".", "2", "1", "-", "v", "1", "0", "-", "1", ".", "6", ".", "z", "i",
                      "p" >>,
                   << "E", "n", "d", "l", "e", "s", "s", "P", "i", "x", "e", "l", ".", "1",
                      ".", "2", "1", "-", "v", "1", "0", "-", "1", ".", "6", ".", "m", "r",
                      "p", "a", "c", "k" >> >>,
     body     |-> "notes of 1.21-v10-1.6"]

Rel_1_21_beta ==
    [tag_name |-> << "1", ".", "2", "1", "-", "v", "1", "0", "-", "b", "9" >>,
     assets   |-> << << "E", "n", "d", "l", "e", "s", "s", "P", "i", "x", "e", "l", ".", "1",
                      ".", "2", "1", "-", "v", "1", "0", "-", "b", "9", ".", "m", "r", "p",
                      "a", "c", "k" >> >>,
     body     |-> "notes of 1.21-v10-b9"]

Rel_noPlatform ==
    [tag_name |-> << "v", "1", "0", "-", "1", ".", "0" >>,
     assets   |-> << << "E", "n", "d", "l", "e", "s", "s", "P", "i", "x", "e", "l", ".", "1",
                      ".", "2", "0", ".", "1", "-", "v", "1", "0", "-", "1", ".", "0", ".",
                      "z", "i", "p" >> >>,
     body     |-> "notes of v10-1.0"]

Rel_1_20_12_v10 ==
    [tag_name |-> << "1", ".", "2", "0", ".", "1", "2", "-", "v", "1", "0", "-", "1", ".", "0" >>,
     assets   |-> << << "E", "n", "d", "l", "e", "s", "s", "P", "i", "x", "e", "l", ".", "1",
                      ".", "2", "0", ".", "1", "2", "-", "v", "1", "0", "-", "1", ".", "0",
                      ".", "z", "i", "p" >> >>,
     body     |-> "notes of 1.20.12-v10-1.0"]

Rel_1_20_12_v9 ==
    [tag_name |-> << "1", ".", "2", "0", ".", "1", "2", "-", "v", "9", "-", "2", ".", "0" >>,
     assets   |-> << << "E", "n", "d", "l", "e", "s", "s", "P", "i", "x", "e", "l", ".", "1",
                      ".", "2", "0", ".", "1", "2", "-", "v", "9", "-", "2", ".", "0", ".",
                      "z", "i", "p" >> >>,
     body     |-> "notes of 1.20.12-v9-2.0"]

Rel_noAssets ==
    [tag_name |-> << "1", ".", "2", "2", "-", "v", "1", "-", "b", "1" >>,
     assets   |-> << >>,
     body     |-> "notes of 1.22-v1-b1"]

Rel_noMatch ==
    [tag_name |-> << "1", ".", "2", "2", "-", "v", "1", "-", "b", "2" >>,
     assets   |-> << << "p", "a", "c", "k", ".", "z", "i", "p" >>,
                   << "E", "n", "d", "l", "e", "s", "s", "P", "i", "x", "e", "l", ".", "1",
                      ".", "2", "2", "-", "v", "1", ".", "z", "i", "p" >> >>,
     body     |-> "notes of 1.22-v1-b2"]

Rel_fourParts ==
    [tag_name |-> << "1", ".", "2", ".", "3", ".", "4", "-", "v", "1", "-", "1", ".", "0" >>,
     assets   |-> << << "E", "n", "d", "l", "e", "s", "s", "P", "i", "x", "e", "l", ".", "1",
                      ".", "2", ".", "3", "-", "v", "1", "-", "1", ".", "0", ".", "z", "i",
                      "p" >> >>,
     body     |-> "notes of 1.2.3.4-v1-1.0"]

Rel_noHyphen ==
    [tag_name |-> << "1", ".", "2", "1" >>,
     assets   |-> << << "E", "n", "d", "l", "e", "s", "s", "P", "i", "x", "e", "l", ".", "1",
                      ".", "2", "1", "-", "v", "1", "-", "b", "1", ".", "m", "r", "p", "a",
                      "c", "k" >> >>,
     body     |-> "notes of 1.21"]

ReleasePool ==
    { Rel_1_21_final, Rel_1_21_beta, Rel_noPlatform, Rel_1_20_12_v10,
      Rel_1_20_12_v9, Rel_noAssets, Rel_noMatch, Rel_fourParts, Rel_noHyphen }

PagePool ==
    { << Rel_1_20_12_v9, Rel_1_21_final >>,
      << Rel_1_20_12_v10, Rel_noPlatform >>,
      << Rel_1_21_beta, Rel_noMatch >>,
      << Rel_noAssets >>,
      << Rel_fourParts, Rel_noHyphen >>,
      << >> }

Remotes == UNION { [1 .. k -> PagePool] : k \in 1 .. MaxPages }

\* the Link header of page i of k, as the API writes it: entries
\* <url>; rel="...", here the page a url leads to and its relation; a single
\* page carries no Link header
LinkHeader(i, k) ==
    (IF i > 1 THEN << [page |-> i - 1, rel |-> "prev"] >> ELSE << >>)
    \o (IF i < k THEN << [page |-> i + 1, rel |-> "next"],
                         [page |-> k, rel |-> "last"] >> ELSE << >>)
    \o (IF i > 1 THEN << [page |-> 1, rel |-> "first"] >> ELSE << >>)

\* the header a listing serves with page i: the last page's "next" entry
\* leads to page back when the listing is cyclic (back # 0)
ServedHeader(remote, back, i) ==
    IF i = Len(remote) /\ back # 0
      THEN (IF i > 1 THEN << [page |-> i - 1, rel |-> "prev"] >> ELSE << >>)
           \o << [page |-> back, rel |-> "next"] >>
      ELSE LinkHeader(i, Len(remote))

\* the requests and the releases of a run are recorded up to this many
\* requests (more than any listing without a cycle takes)
RequestCap == MaxPages + 2

NextLink_none(header) == 0

\* re.search(r'<([^>]+)>; rel="next"', link_header).group(1): the url of the
\* first entry whose relation is "next"; 0 for None (no header, no match)
NextLink(header) ==
    LET hits == { n \in DOMAIN header : header[n].rel = "next" }
    IN  IF hits = {} THEN 0
        ELSE header[CHOOSE n \in hits : \A m \in hits : n <= m].page

\* ---- grouping
\* the key releases without a version prefix are filed under (a fixed text
\* that no version prefix equals), and the empty dict
UnknownBucket == << "unknown version" >>
EmptyCatalog  == << >>

\* the two fixed answers of get_release_notes: no release carries the tag;
\* the request raised
NotFoundText   == "not found"
NotesErrorText == "notes error: str(e)"

FirstMatch_last(assets) ==
    LET hits == { n \in DOMAIN assets : MatchesPattern(assets[n]) }
    IN  IF hits = {} THEN 0 ELSE CHOOSE n \in hits : \A m \in hits : n >= m

\* for asset in assets: if re.match(pattern, asset['name']): ...; break
\* (0: no asset matches)
FirstMatch(assets) ==
    LET hits == { n \in DOMAIN assets : MatchesPattern(assets[n]) }
    IN  IF hits = {} THEN 0 ELSE CHOOSE n \in hits : \A m \in hits : n <= m

\* the body of the loop over the sorted releases, applied to all of them
RECURSIVE GroupFrom(_, _)
GroupFrom(releases, mc_versions) ==
    IF releases = << >> THEN mc_versions
    ELSE LET release == Head(releases)
             matched == FirstMatch(release.assets)
             found   == extract_mc_version(release.tag_name)
             bucket  == IF found = << >> THEN UnknownBucket ELSE found
             entry   == [tag_name      |-> release.tag_name,
                         file_name     |-> release.assets[matched],
                         release_notes |-> release.body]
         IN  IF release.assets = << >> \/ matched = 0
               THEN GroupFrom(Tail(releases), mc_versions)
               ELSE GroupFrom(Tail(releases),
                      [b \in DOMAIN mc_versions \cup {bucket} |->
                         IF b = bucket
                           THEN Append(IF b \in DOMAIN mc_versions
                                         THEN mc_versions[b] ELSE << >>, entry)
                           ELSE mc_versions[b]])

\* releases.sort(key=parse_version of the tag name, reverse=True), then the loop
Catalog(all_releases) ==
    LET keys  == [i \in DOMAIN all_releases |-> parse_version(all_releases[i].tag_name)]
        order == SortedDescending(keys).order
    IN  IF SortedDescending(keys).raised THEN EmptyCatalog
        ELSE GroupFrom([i \in DOMAIN all_releases |-> all_releases[order[i]]],
                       EmptyCatalog)

\* ---- get_versions, one request at a time, as _load_versions_thread calls it
InitCatalog ==
    /\ Construct(1)
    /\ \E remote \in Remotes :
         calc = [fn |-> "catalog", remote |-> remote, pc |-> "idle", url |-> 0,
                 all_releases |-> << >>, requested |-> << >>, failed |-> FALSE,
                 result |-> EmptyCatalog, event |-> "none", tag |-> << >>,
                 back |-> 0]

\* mc_versions = self.version_manager.get_versions(), up to the loop
CallGetVersions ==
    /\ calc.fn = "catalog"
    /\ calc.pc = "idle"
    /\ calc' = [calc EXCEPT !.pc = "fetch", !.url = 1]
    /\ UNCHANGED keepWorker

RequestPage_returnsPartial ==
    /\ calc.fn = "catalog"
    /\ calc.pc = "fetch"
    /\ calc.url # 0
    /\ \/ calc' = [calc EXCEPT !.pc = "returned",
                               !.requested = Append(@, calc.url),
                               !.failed = TRUE,
                               !.result = Catalog(calc.all_releases),
                               !.event = "VERSIONS_LOADED"]
       \/ calc' = [calc EXCEPT
                    !.requested = IF Len(@) < RequestCap THEN Append(@, calc.url) ELSE @,
                    !.all_releases = IF Len(calc.requested) < RequestCap
                                       THEN @ \o calc.remote[calc.url] ELSE @,
                    !.url = NextLink(ServedHeader(calc.remote, calc.back, calc.url))]
    /\ UNCHANGED keepWorker

\* one pass of `while url:`; a request that raises (transport error, or a
\* status that raise_for_status rejects) ends in `except: return {}`, and the
\* caller posts what it was handed
RequestPage ==
    /\ calc.fn = "catalog"
    /\ calc.pc = "fetch"
    /\ calc.url # 0
    /\ \/ calc' = [calc EXCEPT !.pc = "returned",
                               !.requested = Append(@, calc.url),
                               !.failed = TRUE,
                               !.result = EmptyCatalog,
                               !.event = "VERSIONS_LOADED"]
       \/ calc' = [calc EXCEPT
                    !.requested = IF Len(@) < RequestCap THEN Append(@, calc.url) ELSE @,
                    !.all_releases = IF Len(calc.requested) < RequestCap
                                       THEN @ \o calc.remote[calc.url] ELSE @,
                    !.url = NextLink(ServedHeader(calc.remote, calc.back, calc.url))]
    /\ UNCHANGED keepWorker

\* the loop is over: sort, group, return mc_versions; the caller posts it
GroupAndReturn ==
    /\ calc.fn = "catalog"
    /\ calc.pc = "fetch"
    /\ calc.url = 0
    /\ calc' = [calc EXCEPT !.pc = "returned",
                            !.result = Catalog(calc.all_releases),
                            !.event = "VERSIONS_LOADED"]
    /\ UNCHANGED keepWorker

NoteTags == { r.tag_name : r \in ReleasePool } \cup { << "v", "0" >> }

\* get_release_notes(tag_name): one request, for the first page only
GetReleaseNotes ==
    /\ calc.fn = "catalog"
    /\ calc.pc = "idle"
    /\ \E tag \in NoteTags :
         \/ calc' = [calc EXCEPT !.pc = "notes", !.tag = tag,
                                 !.requested = << 1 >>,
                                 !.failed = TRUE,
                                 !.result = NotesErrorText]
         \/ LET releases == calc.remote[1]
                hits     == { n \in DOMAIN releases : releases[n].tag_name = tag }
            IN  calc' = [calc EXCEPT
                           !.pc = "notes", !.tag = tag,
                           !.requested = << 1 >>,
                           !.result =
                              IF hits = {} THEN NotFoundText
                              ELSE releases[CHOOSE n \in hits :
                                              \A m \in hits : n <= m].body]
    /\ UNCHANGED keepWorker

NextCatalog == CallGetVersions \/ RequestPage \/ GroupAndReturn \/ GetReleaseNotes

SpecCatalog == InitCatalog /\ [][NextCatalog]_vars

\* every listing a server can present: the last page has no "next" entry, or
\* one that leads back to a page of the listing
InitListings ==
    /\ Construct(1)
    /\ \E remote \in Remotes : \E back \in 0 .. Len(remote) :
         calc = [fn |-> "catalog", remote |-> remote, pc |-> "idle", url |-> 0,
                 all_releases |-> << >>, requested |-> << >>, failed |-> FALSE,
                 result |-> EmptyCatalog, event |-> "none", tag |-> << >>,
                 back |-> back]

\* the thread that runs get_versions does not stop inside the pagination
\* loop: a request that can be issued is issued
FairCatalog == InitListings /\ [][NextCatalog]_vars /\ WF_vars(RequestPage)

\* ---- claims about the release catalog

\* get_versions has returned without a failed request
Fetched == calc.fn = "catalog" /\ calc.pc = "returned" /\ ~ calc.failed

\* the entries of a catalog that carry a tag name, as (bucket, position) pairs
EntriesOf(catalog, tag) ==
    { << b, n >> \in UNION { {b} \X DOMAIN catalog[b] : b \in DOMAIN catalog } :
        catalog[b][n].tag_name = tag }

\* the places (page, position) of the remote listing that hold a tag name
PlacesOf(remote, tag) ==
    { << p, n >> \in UNION { {p} \X DOMAIN remote[p] : p \in DOMAIN remote } :
        remote[p][n].tag_name = tag }

HasMatch(release) == \E n \in DOMAIN release.assets : MatchesPattern(release.assets[n])

\* C22: when the listing is split over k pages linked by rel="next", a fetch
\* without failures requests pages 1..k, each once and in that order, and
\* every release of every page that has a matching asset is in the catalog.
C22_AllPagesFetched ==
    Fetched =>
       /\ calc.requested = [i \in 1 .. Len(calc.remote) |-> i]
       /\ \A p \in DOMAIN calc.remote : \A n \in DOMAIN calc.remote[p] :
             HasMatch(calc.remote[p][n]) =>
                EntriesOf(calc.result, calc.remote[p][n].tag_name) # {}

C22_Witness ==
    /\ Fetched
    /\ Len(calc.remote) = MaxPages
    /\ calc.remote[1] = << Rel_1_20_12_v9, Rel_1_21_final >>
    /\ calc.remote[MaxPages] = << Rel_1_21_beta, Rel_noMatch >>
    /\ EntriesOf(calc.result, Rel_1_21_beta.tag_name) # {}
    /\ EntriesOf(calc.result, Rel_1_20_12_v9.tag_name) # {}

\* C23: a fetched release contributes at most one entry: none when it has no
\* asset whose name matches the grammar, otherwise one, carrying the first
\* matching asset in listed order; so every file_name in the catalog matches.
C23_OneEntryFirstMatch ==
    Fetched =>
       /\ \A r \in ReleasePool :
             /\ Cardinality(EntriesOf(calc.result, r.tag_name)) =
                   IF HasMatch(r) THEN Cardinality(PlacesOf(calc.remote, r.tag_name))
                   ELSE 0
             /\ \A e \in EntriesOf(calc.result, r.tag_name) :
                   \E n \in DOMAIN r.assets :
                      /\ calc.result[e[1]][e[2]].file_name = r.assets[n]
                      /\ MatchesPattern(r.assets[n])
                      /\ \A m \in 1 .. n - 1 : ~ MatchesPattern(r.assets[m])
       /\ \A b \in DOMAIN calc.result : \A n \in DOMAIN calc.result[b] :
             MatchesPattern(calc.result[b][n].file_name)

\* three assets, the first not matching, the second and third matching: the
\* entry carries the second; a release without a matching asset was fetched too
C23_Witness ==
    /\ Fetched
    /\ PlacesOf(calc.remote, Rel_1_21_final.tag_name) # {}
    /\ PlacesOf(calc.remote, Rel_noMatch.tag_name) # {}
    /\ \A e \in EntriesOf(calc.result, Rel_1_21_final.tag_name) :
          calc.result[e[1]][e[2]].file_name = Rel_1_21_final.assets[2]
    /\ EntriesOf(calc.result, Rel_1_21_final.tag_name) # {}
    /\ EntriesOf(calc.result, Rel_noMatch.tag_name) = {}

\* a dotted numeric version of 2 or 3 components: digits and dots only, no
\* empty component, one or two dots
IsDottedVersion(v) ==
    /\ v # << >>
    /\ \A n \in DOMAIN v : IsDigit(v[n]) \/ v[n] = "."
    /\ IsDigit(v[1]) /\ IsDigit(v[Len(v)])
    /\ \A n \in 1 .. Len(v) - 1 : ~ (v[n] = "." /\ v[n + 1] = ".")
    /\ Cardinality({ n \in DOMAIN v : v[n] = "." }) \in {1, 2}

\* the lengths of the prefixes of a tag name that are such a version and are
\* immediately followed by a hyphen
VersionPrefixes(tag) ==
    { n \in 1 .. Len(tag) - 1 : IsDottedVersion(SubSeq(tag, 1, n)) /\ tag[n + 1] = "-" }

\* C24: an entry is filed under the leading dotted numeric version (2 or 3
\* components) of its tag name when a hyphen follows it, and under the
\* 'unknown' bucket otherwise.
C24_BucketIsVersionPrefix ==
    Fetched =>
       \A b \in DOMAIN calc.result : \A n \in DOMAIN calc.result[b] :
          LET tag == calc.result[b][n].tag_name
          IN  IF VersionPrefixes(tag) = {} THEN b = UnknownBucket
              ELSE \E k \in VersionPrefixes(tag) : b = SubSeq(tag, 1, k)

\* "1.20.12-v10-1.0" is under "1.20.12" and "v10-1.0" under the sentinel
C24_Witness ==
    /\ Fetched
    /\ EntriesOf(calc.result, Rel_1_20_12_v10.tag_name) # {}
    /\ \A e \in EntriesOf(calc.result, Rel_1_20_12_v10.tag_name) :
          e[1] = << "1", ".", "2", "0", ".", "1", "2" >>
    /\ EntriesOf(calc.result, Rel_noPlatform.tag_name) # {}
    /\ \A e \in EntriesOf(calc.result, Rel_noPlatform.tag_name) : e[1] = UnknownBucket

\* get_versions has returned after a request failed
FetchFailed == calc.fn = "catalog" /\ calc.pc = "returned" /\ calc.failed

\* C25: when the request for a page fails, what the caller is handed differs
\* from what it is handed after a successful fetch that found no releases
\* (the empty catalog, posted as VERSIONS_LOADED).
C25_FailureIsDistinguishable ==
    FetchFailed => ~ (calc.result = EmptyCatalog /\ calc.event = "VERSIONS_LOADED")

\* C26: when the request for page j > 1 fails after pages 1 .. j-1 were
\* fetched, the value handed to the caller holds no entry at all, the pages
\* requested are exactly 1 .. j, and no request follows.
C26_NoPartialCatalog ==
    (FetchFailed /\ Len(calc.requested) > 1) =>
       /\ \A r \in ReleasePool : EntriesOf(calc.result, r.tag_name) = {}
       /\ calc.requested = [i \in 1 .. Len(calc.requested) |-> i]
       /\ ~ ENABLED RequestPage

C26_Witness ==
    /\ FetchFailed
    /\ calc.requested = << 1, 2 >>
    /\ \E n \in DOMAIN calc.all_releases : HasMatch(calc.all_releases[n])
    /\ calc.result = EmptyCatalog

\* C27: in the returned catalog the entries of every bucket are in
\* non-increasing order of parse_version(tag_name), whatever the releases and
\* the order of the pages.
C27_BucketsDescending ==
    Fetched =>
       \A b \in DOMAIN calc.result : \A i, j \in DOMAIN calc.result[b] :
          i < j => ~ KeyLess(parse_version(calc.result[b][i].tag_name),
                             parse_version(calc.result[b][j].tag_name))

\* the listing gives "1.20.12-v9-2.0" before "1.20.12-v10-1.0"; the bucket
\* holds them the other way round
C27_Witness ==
    /\ Fetched
    /\ calc.remote = << << Rel_1_20_12_v9, Rel_1_21_final >>,
                        << Rel_1_20_12_v10, Rel_noPlatform >> >>
    /\ LET bucket == calc.result[<< "1", ".", "2", "0", ".", "1", "2" >>]
       IN  /\ bucket[1].tag_name = Rel_1_20_12_v10.tag_name
           /\ bucket[2].tag_name = Rel_1_20_12_v9.tag_name
           /\ KeyLess(parse_version(bucket[2].tag_name), parse_version(bucket[1].tag_name))

\* C28: get_release_notes(tag) returns the notes of the release that carries
\* the tag whenever the listing holds one, on whichever page; the 'not found'
\* text only when no listed release carries it; the error text when the
\* request fails.
C28_NotesFromAnyPage ==
    (calc.fn = "catalog" /\ calc.pc = "notes") =>
       IF calc.failed THEN calc.result = NotesErrorText
       ELSE /\ \A r \in ReleasePool :
                  (r.tag_name = calc.tag /\ PlacesOf(calc.remote, calc.tag) # {})
                     => calc.result = r.body
            /\ calc.result = NotFoundText => PlacesOf(calc.remote, calc.tag) = {}

\* ---- claims about the chunk workers' writes

\* the positions of download_chunk at which the worker holds an increment
\* for which `if not self.running` has been evaluated and found running set
PassedCheck == {"chkpause", "pausewait", "chkrun2", "write"}

\* the steps of worker w that write to the destination file
WritesIncrement(w) ==
    \/ downloaded'[w] # downloaded[w]
    \/ /\ file' # file
       /\ \E o \in DOMAIN file' :
             w \in file'[o] /\ (o \in DOMAIN file => w \notin file[o])

\* C29: every write of an increment comes after a check of the flag for that
\* increment (and the one after the pause loop, when the worker waited); once
\* running is False it stays False, a worker that evaluates a check leaves
\* its loop writing nothing and emitting no error, no worker gets past a
\* check any more, and a worker that writes has used up the check it had
\* passed: so each worker writes at most one increment after the flag is set.
C29_WritesOnlyAfterCheck ==
    [][ /\ ~ running => ~ running'
        /\ \A w \in Workers :
              (wpc'[w] # wpc[w] \/ downloaded'[w] # downloaded[w] \/ file' # file) =>
                 /\ WritesIncrement(w) => wpc[w] = "write"
                 /\ (wpc'[w] = "write" /\ wpc[w] # "write") =>
                       wpc[w] = "chkpause" \/ (wpc[w] = "chkrun2" /\ running)
                 /\ (wpc'[w] \in PassedCheck /\ wpc[w] \notin PassedCheck) =>
                       running /\ wpc[w] = "chkrun"
                 /\ WritesIncrement(w) => wpc'[w] \notin PassedCheck
                 /\ (~ running /\ wpc[w] \in {"chkrun", "chkrun2"} /\ wpc'[w] # wpc[w]) =>
                       /\ wpc'[w] = "done"
                       /\ errors' = errors
                       /\ file' = file
                 /\ (wpc[w] = "done") => (wpc'[w] = "done" /\ ~ WritesIncrement(w))
      ]_vars

\* stop() has set the flag; a worker that had received an increment reached
\* the check, dropped the increment and left its loop; no error was emitted
C29_Witness ==
    /\ ~ running
    /\ errors = << >>
    /\ \E w \in Workers :
          /\ wpc[w] = "done"
          /\ downloaded[w] > 0
          /\ received[w] > downloaded[w]

\* C30: no offset of the destination file is written by two different
\* workers, and a worker writes only offsets of its own range start .. end,
\* in every interleaving and completion order (the bodies being no longer
\* than the ranges asked for).
C30_WritesStayInOwnRange ==
    \A o \in 0 .. (Len(file) - 1) :
       /\ Cardinality(file[o + 1]) <= 1
       /\ \A w \in file[o + 1] : start[w] <= o /\ o <= end[w]

\* two workers have both written, the second one first finished, and the
\* offsets of the file are written by one worker each
C30_Witness ==
    /\ threads = 2
    /\ total_size = 3
    /\ wpc[1] = "done" /\ wpc[0] \notin {"done", "failed"}
    /\ downloaded[0] > 0
    /\ file = << {0}, {1}, {1} >>

\* ---- claims about the key order

\* a is below b in the lexicographic order of integer sequences: the first
\* position where they differ decides, a proper prefix is below
SeqBelow(a, b) ==
    \E n \in 1 .. Len(b) :
       /\ \A m \in 1 .. (n - 1) : m <= Len(a) /\ a[m] = b[m]
       /\ n = Len(a) + 1 \/ (n <= Len(a) /\ a[n] < b[n])

\* k1 is below k2 in the lexicographic order on (numeric components,
\* release rank, pre-release number)
LexBelow(k1, k2) ==
    \/ SeqBelow(k1[1], k2[1])
    \/ k1[1] = k2[1] /\ k1[2] < k2[2]
    \/ k1[1] = k2[1] /\ k1[2] = k2[2] /\ k1[3] < k2[3]

\* C31: the order in which the keys of parse_version are compared is the
\* lexicographic one: numeric components element-wise first (a proper
\* prefix is less), the release rank only when they are equal, the
\* pre-release number only when both are equal; the sort orders by it.
C31_KeyOrderIsLexicographic ==
    calc.fn = "sorted" =>
       /\ \A i, j \in DOMAIN calc.keys :
             KeyLess(calc.keys[i], calc.keys[j]) <=> LexBelow(calc.keys[i], calc.keys[j])
       /\ \A i, j \in DOMAIN calc.order :
             i < j => ~ LexBelow(calc.keys[calc.order[i]], calc.keys[calc.order[j]])

\* a pre-release with more components and a smaller pre-release number went
\* above one whose components are a proper prefix of its own
C31_Witness ==
    /\ calc.fn = "sorted"
    /\ calc.tags = << << "1", "-", "b", "2" >>, << "1", ".", "1", "-", "b", "1" >> >>
    /\ calc.keys = << << << 1 >>, PreReleasePriority, 2 >>,
                      << << 1, 1 >>, PreReleasePriority, 1 >> >>
    /\ calc.result = << calc.tags[2], calc.tags[1] >>

\* position of list element i in the sorted order
PlaceOf(i) == CHOOSE n \in DOMAIN calc.order : calc.order[n] = i

\* tag i, in which no pre-release suffix is found, has rank 100, tag j, in
\* which one is found, has rank 50, and i is sorted strictly above j
FinalAbove(i, j) ==
    /\ calc.keys[i][2] = FinalPriority
    /\ calc.keys[j][2] = PreReleasePriority
    /\ KeyLess(calc.keys[j], calc.keys[i])
    /\ PlaceOf(i) < PlaceOf(j)

\* C32 as stated: a tag name without a pre-release suffix sorts strictly
\* above every tag name with one, whatever the numeric components of the two.
C32_FinalAboveEveryPreRelease ==
    calc.fn = "sorted" =>
       \A i, j \in DOMAIN calc.tags :
          (SearchPreRelease(calc.tags[i]) = << >> /\ SearchPreRelease(calc.tags[j]) # << >>)
             => FinalAbove(i, j)

\* C32 (amended): a tag name without a pre-release suffix sorts strictly
\* above every tag name with one that has the same numeric components.
C32_FinalAboveSameComponents ==
    calc.fn = "sorted" =>
       \A i, j \in DOMAIN calc.tags :
          (/\ SearchPreRelease(calc.tags[i]) = << >>
           /\ SearchPreRelease(calc.tags[j]) # << >>
           /\ calc.keys[i][1] = calc.keys[j][1])
             => FinalAbove(i, j)

\* "1.2-v1-b1" came before "1.2" in the list and went below it
C32_Witness ==
    /\ calc.fn = "sorted"
    /\ calc.tags = << << "1", ".", "2", "-", "v", "1", "-", "b", "1" >>, << "1", ".", "2" >> >>
    /\ calc.keys[1][1] = calc.keys[2][1]
    /\ calc.result = << calc.tags[2], calc.tags[1] >>

\* C33: when a pre-release suffix is found in a tag name, the main version
\* string that parse_version takes its numeric components from is the tag
\* name without its final '-<suffix>': one occurrence is removed, the one at
\* the end, and nothing else.
C33_OnlyTrailingSuffixRemoved ==
    calc.fn = "sorted" =>
       \A i \in DOMAIN calc.tags :
          SearchPreRelease(calc.tags[i]) # << >> =>
             /\ calc.tags[i] = MainVersionStr(calc.tags[i]) \o << "-" >>
                                  \o SearchPreRelease(calc.tags[i])
             /\ calc.keys[i][1] = DigitRuns(MainVersionStr(calc.tags[i]))

\* "1-b1-b1": the suffix is "b1-b1", the text "-b1" in the middle is part of it
C33_Witness ==
    /\ calc.fn = "sorted"
    /\ calc.tags[1] = << "1", "-", "b", "1", "-", "b", "1" >>
    /\ SearchPreRelease(calc.tags[1]) = << "b", "1", "-", "b", "1" >>
    /\ MainVersionStr(calc.tags[1]) = << "1" >>
    /\ calc.keys[1] = << << 1 >>, PreReleasePriority, 1 >>

\* ---- claims about the end of a transfer

\* C34, as a property of finite runs: when run() has returned after a probe
\* that succeeded, no worker failed, stop() was not called and every pause()
\* has been followed by a resume(), also when every byte was transferred,
\* the finished signal has been emitted (run() being the only place that
\* emits it, it cannot be emitted later).
C34_FinishedWhenNothingFails ==
    (/\ runPc = "done"
     /\ errors = << >>
     /\ downloaded_size = total_size
     /\ running /\ ctl = "ready"
     /\ ~ paused)
        => finished # << >>

\* C35: after run() has returned, whatever the outcome of the transfer, the
\* loop of calculate_speed eventually exits (or the thread was never started).
C35_SamplerTerminates ==
    [] (runPc = "done" => <> (spc \in {"none", "done"}))

\* run() has returned from a failed probe: the request raised, or no length
\* was reported (total_size is still 0, the error signal was emitted)
ProbeFailed == runPc = "done" /\ total_size = 0 /\ errors # << >>

\* C36: when the probe fails, run() leaves the destination untouched: the
\* parent directory is not created, the content at save_path is what it was,
\* and downloaded_size is 0.
C36_FailedProbeTouchesNothing ==
    (calc.fn = "fs" /\ ProbeFailed) =>
       /\ calc.dir = calc.dir0
       /\ file = calc.file0
       /\ downloaded_size = 0
       /\ wpc[0] = "none"

\* the probe reported no length while save_path held a file
C36_Witness ==
    /\ calc.fn = "fs"
    /\ ProbeFailed
    /\ errors = << MsgNoSize >>
    /\ calc.file0 # << >>
    /\ file = calc.file0

\* C37: for a mirror whose stored prefix is an absolute URL and an absolute
\* original URL, the URL get_mirror_url returns goes through the mirror: its
\* scheme and host are those of the prefix.
C37_RoutedThroughMirror ==
    (/\ calc.fn = "mirror"
     /\ calc.last.op = "get_mirror_url"
     /\ calc.last.name \in DOMAIN calc.mirrors
     /\ calc.mirrors[calc.last.name].url.scheme # ""
     /\ calc.last.url.scheme # "")
        => /\ calc.last.result.scheme = calc.mirrors[calc.last.name].url.scheme
           /\ calc.last.result.netloc = calc.mirrors[calc.last.name].url.netloc

\* C38: when the probed size is at least 1 and smaller than the number of
\* workers, every range run() hands out has start <= end, and every offset
\* 0 .. total_size-1 lies in the range of exactly one worker.
C38_SmallFileRangesValid ==
    (spawned = threads /\ total_size >= 1 /\ total_size < threads) =>
        /\ \A i \in 0 .. (threads - 1) : start[i] <= end[i]
        /\ \A o \in 0 .. (total_size - 1) :
              Cardinality({ i \in 0 .. (threads - 1) : start[i] <= o /\ o <= end[i] }) = 1

\* C39: the pagination loop of get_versions ends for every listing, one
\* whose "next" links form a cycle included: a call that has begun to fetch
\* eventually has no page left to request (and sorts, groups and returns),
\* or has returned from a failed request.
C39_PaginationTerminates ==
    (calc.fn = "catalog" /\ calc.pc = "fetch")
        ~> (calc.pc = "returned" \/ (calc.pc = "fetch" /\ calc.url = 0))

====
